---- MODULE Spec2Model ----
(***************************************************************************)
(* Model of the batch meme generation pipeline of api/ai/meme_ai_flow.py   *)
(* (generate_memes_for_uuids and the fan-out helpers it drives), of the     *)
(* request boundary in api/main.py, and of the shared rate-limit gate of    *)
(* api/ai/rate_limiter.py.                                                  *)
(***************************************************************************)
EXTENDS Integers, Sequences, FiniteSets, TLC

(* ------------------------------ bounds --------------------------------- *)
NumIds == 3
MaxPool == 3
MaxAssignUuids == 7
NumCallers == 2
MaxTime == 2
ResetAhead == 1
MaxBoxes == 2
MaxWords == 2
NumJobs == 2
MaxWrapWords == 3

(* --------------------------- program constants -------------------------- *)
MIN_FALLBACK_FONT_SIZE == 40
MAX_FONT_SIZE == 200
MIN_FONT_SIZE == 10
OutlineReach == 3
DefaultFontSize == 10
DefaultBoxWidth == 20
DefaultBoxHeight == 10
UploadMaxRetries == 3
RetryDelay == 1

NumGoals == 2
TopK == 2
NumVariations == 1
NumBoxes == 7
DefaultResetSeconds == 60
MaxRetries == 5

VARIABLES
    store,           \* committed rows of table memes: id -> row or NoRow
    uuids,           \* request.uuids
    pc,              \* stage of the request
    goals,           \* goals["meme_goals"]
    gi,              \* 1-based index of the goal whose templates are handled
    templates,       \* templates of the current goal
    tasks,           \* text_generation_tasks of the current goal
    generated_memes, \* the pool
    uuid_memes,      \* the slots
    image_tasks,     \* image_tasks of batch_process_images: slot indexes
    results,         \* results of the gathered image tasks
    response,        \* what generate_meme_batch answers
    log,             \* operations performed so far for this request
    now,             \* the clock, in seconds
    rate_info,       \* RateLimiter.most_recent_rate_limit_info
    headers,         \* the response headers the snapshot was built from
    callers,         \* the coroutines inside make_anthropic_request
    repair,          \* one parse of a model answer, with its JSON repair
    norm,            \* one template's box geometry and captions on their
                     \* way through normalisation and rendering
    overlay,         \* one TextOverlay and its add_text_at_coordinates call
    image_jobs       \* the process_meme_image coroutines of one gather

batchVars == <<store, uuids, pc, goals, gi, templates, tasks, generated_memes,
               uuid_memes, image_tasks, results, response, log>>
rateVars == <<now, rate_info, headers, callers>>
renderVars == <<overlay, image_jobs>>
auxVars == <<repair, norm, renderVars>>
vars == <<batchVars, rateVars, auxVars>>

Ids == 1..NumIds
MaxUuids == NumIds
Templates == 1..TopK

(* ------------------------------ values --------------------------------- *)
None == <<>>
Unset == <<"unset">>
\* the place of a result gather has not yet collected
Pending == <<"pending">>
Placeholder == <<"placeholder", 0>>
NoRow == [absent |-> TRUE]
NoResponse == [kind |-> "none"]
NoText == "None"

\* cdn_url = f"{self.cdn_base_url}/{object_name}", object_name = f"meme_instances/{uuid_str}.jpg"
CdnUrl(uuid_str) == <<"meme_instances", uuid_str>>

InitialRow == [template_id |-> 0,
               text_boxes |-> [i \in 1..NumBoxes |-> NoText],
               meme_cdn_url |-> Placeholder]

RECURSIVE BoundedSeq(_, _)
BoundedSeq(S, n) ==
    IF n = 0 THEN {<<>>}
    ELSE LET shorter == BoundedSeq(S, n - 1)
         IN  shorter \cup {Append(s, x) : s \in {t \in shorter : Len(t) = n - 1}, x \in S}

Range(s) == {s[i] : i \in 1..Len(s)}

RECURSIVE SumSeq(_)
SumSeq(s) == IF Len(s) = 0 THEN 0 ELSE s[1] + SumSeq(Tail(s))
Injective(s) == \A i, j \in 1..Len(s) : s[i] = s[j] => i = j

(* ----------------------- text choices (LLM output) ---------------------- *)
KeyPlain == <<"text1", "text2", "text3", "text4", "text5", "text6", "text7">>
KeyUnder == <<"text_1", "text_2", "text_3", "text_4", "text_5", "text_6", "text_7">>

NotADict == [nondict |-> "5"]
Choices == { [text1 |-> "top", text2 |-> "bottom"],
             [text_1 |-> "left", text8 |-> "extra"] }

\* variant: only the spelling text{i} is looked up
TextBoxesPlainOnly(choice) ==
    [i \in 1..NumBoxes |->
        IF KeyPlain[i] \in DOMAIN choice THEN choice[KeyPlain[i]] ELSE NoText]

\* text_boxes = [None] * 7; text{i} first, else text_{i}
TextBoxes(choice) ==
    [i \in 1..NumBoxes |->
        IF KeyPlain[i] \in DOMAIN choice THEN choice[KeyPlain[i]]
        ELSE IF KeyUnder[i] \in DOMAIN choice THEN choice[KeyUnder[i]]
        ELSE NoText]

\* what generate_meme_texts can return: a dict with or without "text_choices"
TextVariations ==
    {[has_choices |-> FALSE, text_choices |-> <<>>]}
    \cup {[has_choices |-> TRUE, text_choices |-> cs] : cs \in BoundedSeq(Choices, NumVariations)}
    \cup {[has_choices |-> TRUE, text_choices |-> <<NotADict>>]}

NoResult == [has_choices |-> FALSE, text_choices |-> <<>>]

(* ------------------------- fan-in of text tasks ------------------------- *)
\* variant: the first task that raised ends the collection
RECURSIVE ProcessedResultsAbort(_, _, _)
ProcessedResultsAbort(tpls, tks, k) ==
    IF k > Len(tpls) THEN <<>>
    ELSE IF tks[k].st = "fail" THEN <<>>
    ELSE <<[template |-> tpls[k], text_variations |-> tks[k].res]>>
         \o ProcessedResultsAbort(tpls, tks, k + 1)

\* batch_generate_texts: zip(text_generation_tasks, results), skipping exceptions
RECURSIVE ProcessedResultsFrom(_, _, _)
ProcessedResultsFrom(tpls, tks, k) ==
    IF k > Len(tpls) THEN <<>>
    ELSE IF tks[k].st = "fail" THEN ProcessedResultsFrom(tpls, tks, k + 1)
    ELSE <<[template |-> tpls[k], text_variations |-> tks[k].res]>>
         \o ProcessedResultsFrom(tpls, tks, k + 1)

ProcessedResults(tpls, tks) == ProcessedResultsFrom(tpls, tks, 1)

\* the loop over text_variations["text_choices"] of one processed result
MemesOfResult(r) ==
    IF ~r.text_variations.has_choices THEN <<>>
    ELSE [c \in 1..Len(r.text_variations.text_choices) |->
            [template_id |-> r.template,
             text_boxes |-> TextBoxes(r.text_variations.text_choices[c])]]

RECURSIVE FlattenMemes(_)
FlattenMemes(prs) ==
    IF prs = <<>> THEN <<>>
    ELSE MemesOfResult(Head(prs)) \o FlattenMemes(Tail(prs))

\* "text{i}" in choice raises TypeError when the choice is not a container
RaisesInFanIn(prs) ==
    \E k \in 1..Len(prs) :
        /\ prs[k].text_variations.has_choices
        /\ \E c \in 1..Len(prs[k].text_variations.text_choices) :
              prs[k].text_variations.text_choices[c] = NotADict

(* --------------------------- cyclic assignment -------------------------- *)
\* variant: past the end of the pool the last entry is reused
SlotForClamped(i, uuid, pool) ==
    LET j == IF i < Len(pool) THEN i + 1 ELSE Len(pool)
    IN  [uuid |-> uuid,
         template_id |-> pool[j].template_id,
         text_boxes |-> pool[j].text_boxes,
         cdn_url |-> Unset]

\* meme = generated_memes[i % len(generated_memes)] for i, uuid in enumerate(uuids)
\* i is the 0-based position of enumerate(uuids)
SlotFor(i, uuid, pool) ==
    [uuid |-> uuid,
     template_id |-> pool[(i % Len(pool)) + 1].template_id,
     text_boxes |-> pool[(i % Len(pool)) + 1].text_boxes,
     cdn_url |-> Unset]

MatchUuids(ids, pool) == [i \in 1..Len(ids) |-> SlotFor(i - 1, ids[i], pool)]

(* ------------------------------ responses ------------------------------- *)
\* generate_meme_batch: ValueError -> 400, any other exception -> 500
ErrorResponse(exc, msg) ==
    [kind |-> "error", status |-> IF exc = "ValueError" THEN 400 ELSE 500,
     detail |-> msg, memes |-> <<>>]

\* meme.get("cdn_url"): a slot that never got the key reads as None
GetCdnUrl(meme) == IF meme.cdn_url = Unset THEN None ELSE meme.cdn_url

\* variant: slots without an image are left out of the answer
OkResponseUploadedOnly(memes) ==
    [kind |-> "ok", status |-> 200, detail |-> "",
     memes |-> SelectSeq([i \in 1..Len(memes) |->
                            [uuid |-> memes[i].uuid,
                             text_boxes |-> memes[i].text_boxes,
                             cdn_url |-> GetCdnUrl(memes[i])]],
                         LAMBDA m : m.cdn_url # None)]

OkResponse(memes) ==
    [kind |-> "ok", status |-> 200, detail |-> "",
     memes |-> [i \in 1..Len(memes) |->
                  [uuid |-> memes[i].uuid,
                   text_boxes |-> memes[i].text_boxes,
                   cdn_url |-> GetCdnUrl(memes[i])]]]

\* variant: a failed request is started again from validation
FailRestarting(exc, msg) ==
    /\ pc' = "VALIDATING"
    /\ response' = response

Fail(exc, msg) ==
    /\ pc' = "FAILED"
    /\ response' = ErrorResponse(exc, msg)

(* ------------------------------ persistence ----------------------------- *)
\* variant: a slot without a URL is not written
UpdateRowOnlyWithUrl(row, meme) ==
    IF GetCdnUrl(meme) # None
    THEN [template_id |-> meme.template_id,
          text_boxes |-> meme.text_boxes,
          meme_cdn_url |-> GetCdnUrl(meme)]
    ELSE row

\* the two UPDATE statements: with meme_cdn_url when the slot has a URL,
\* without it otherwise
UpdateRow(row, meme) ==
    IF GetCdnUrl(meme) # None
    THEN [template_id |-> meme.template_id,
          text_boxes |-> meme.text_boxes,
          meme_cdn_url |-> GetCdnUrl(meme)]
    ELSE [template_id |-> meme.template_id,
          text_boxes |-> meme.text_boxes,
          meme_cdn_url |-> row.meme_cdn_url]

\* for meme in uuid_memes: cur.execute(UPDATE ... WHERE id = meme["uuid"])
RECURSIVE ApplyUpdates(_, _)
ApplyUpdates(st, memes) ==
    IF memes = <<>> THEN st
    ELSE LET m == Head(memes)
             st1 == IF st[m.uuid] = NoRow THEN st
                    ELSE [st EXCEPT ![m.uuid] = UpdateRow(st[m.uuid], m)]
         IN  ApplyUpdates(st1, Tail(memes))

\* variant: every UPDATE is durable as soon as it is executed
AfterFailedUpdateAutocommit(st, memes, n) ==
    ApplyUpdates(st, SubSeq(memes, 1, n - 1))

\* the n-th statement of the loop raises (the commit itself when n is one
\* past the last slot): conn.commit() has not returned and the connection
\* is abandoned with its transaction, so the committed rows are as before
AfterFailedUpdate(st, memes, n) == st

(* ------------------------------ rate limiter ---------------------------- *)
Callers == 1..NumCallers
Dimensions == {"requests", "tokens", "input_tokens", "output_tokens"}

NoInfo == [absent |-> TRUE]
NoHeaders == [absent |-> TRUE]
Absent == [kind |-> "absent", v |-> 0]
Value(n) == [kind |-> "value", v |-> n]
\* a header whose text is neither a number nor an ISO timestamp
Garbage == [kind |-> "garbage", v |-> 0]
\* an ISO timestamp without a UTC offset: fromisoformat gives a naive datetime
Naive(n) == [kind |-> "naive", v |-> n]

\* variant: a dimension without a count header is taken to have quota left
ParseRemainingPlenty(h) == IF h.kind = "absent" THEN 100 ELSE h.v

\* int(headers.get("anthropic-ratelimit-<dim>-remaining", 0))
ParseRemaining(h) == IF h.kind = "absent" THEN 0 ELSE h.v

\* int() of a text that is not a number raises ValueError
FromHeadersRaises(hs) == \E d \in Dimensions : hs[d].remaining.kind = "garbage"

\* variant of parse_date: the header's value is kept whatever its form
ParseDateNoDefault(h, t) == h.v

\* parse_date: the default 60 seconds in the future when the header is absent
\* or fromisoformat raises ValueError
ParseDate(h, t) ==
    IF h.kind \in {"absent", "garbage"} THEN t + DefaultResetSeconds ELSE h.v

\* variant of update_anthropic_response: a reset without a header keeps the
\* value of the earlier snapshot
UpdateAnthropicResponseMerging(hs, t) ==
    [remaining |-> [d \in Dimensions |-> ParseRemaining(hs[d].remaining)],
     reset |-> [d \in Dimensions |->
                  IF hs[d].reset.kind = "absent" /\ rate_info # NoInfo
                  THEN rate_info.reset[d] ELSE ParseDate(hs[d].reset, t)],
     naive |-> {d \in Dimensions : hs[d].reset.kind = "naive"},
     timestamp |-> t]

\* RateLimitInfo.from_headers at time t; naive holds the dimensions whose
\* reset was parsed into a datetime without tzinfo
FromHeaders(hs, t) ==
    [remaining |-> [d \in Dimensions |-> ParseRemaining(hs[d].remaining)],
     reset |-> [d \in Dimensions |-> ParseDate(hs[d].reset, t)],
     naive |-> {d \in Dimensions : hs[d].reset.kind = "naive"},
     timestamp |-> t]

Max(a, b) == IF a >= b THEN a ELSE b
MaxOf(S) == CHOOSE m \in S : \A x \in S : x <= m

\* the dimensions whose wait time is appended to wait_times
Exhausted(info) == {d \in Dimensions : info.remaining[d] <= 0}

\* variant: the shortest wait among the exhausted dimensions is taken
ShouldWaitShortest(info, t) ==
    LET wait_times == {info.reset[d] - t : d \in Exhausted(info)}
    IN  IF wait_times # {}
        THEN <<TRUE, Max(0, CHOOSE m \in wait_times : \A x \in wait_times : m <= x)>>
        ELSE <<FALSE, 0>>

\* RateLimitInfo.should_wait at time t: <<should_wait, wait_time>>
ShouldWait(info, t) ==
    LET wait_times == {info.reset[d] - t : d \in Exhausted(info)}
    IN  IF wait_times # {}
        THEN <<TRUE, Max(0, MaxOf(wait_times))>>
        ELSE <<FALSE, 0>>

\* RateLimiter.should_wait_global
ShouldWaitGlobal(info, t) ==
    IF info = NoInfo THEN <<FALSE, 0>> ELSE ShouldWait(info, t)

\* should_wait subtracts the aware current_time from the reset of every
\* exhausted dimension: TypeError when that reset is naive
ShouldWaitRaises(info) ==
    /\ info # NoInfo
    /\ \E d \in Exhausted(info) : d \in info.naive

\* what one response can carry for one dimension, seen at time t
DimHeaders(t) ==
    { [remaining |-> Absent, reset |-> Absent],
      [remaining |-> Value(0), reset |-> Value(t + ResetAhead)],
      [remaining |-> Value(100), reset |-> Value(t + ResetAhead)] }

\* less regular headers: a count that is not a number, a reset that is not
\* a timestamp, a reset without a UTC offset, a reset that is already past,
\* a reset without a count
OddDimHeaders(t) ==
    { [remaining |-> Garbage, reset |-> Value(t + ResetAhead)],
      [remaining |-> Absent, reset |-> Value(t + ResetAhead)],
      [remaining |-> Value(0), reset |-> Garbage],
      [remaining |-> Value(0), reset |-> Naive(t + ResetAhead)],
      [remaining |-> Value(0), reset |-> Value(t - 1)] }

\* the headers of one response: regular in every dimension, or odd in one
\* dimension with quota left in the others
ResponseHeaders(t) ==
    [Dimensions -> DimHeaders(t)]
      \cup { [d \in Dimensions |->
                 IF d = e THEN odd
                 ELSE [remaining |-> Value(100), reset |-> Value(t + ResetAhead)]] :
                e \in Dimensions, odd \in OddDimHeaders(t) }

IdleCaller == [pc |-> "idle", gate_time |-> 0, wait |-> 0, attempts |-> 0]
Finished(how, n) == [pc |-> how, gate_time |-> 0, wait |-> 0, attempts |-> n]

NoRepair == [pc |-> "NONE"]
NoNorm == [pc |-> "NONE"]
NoOverlay == [pc |-> "NONE"]
NoJobs == [pc |-> "NONE"]

RenderParked ==
    /\ overlay = NoOverlay
    /\ image_jobs = NoJobs

AuxParked ==
    /\ repair = NoRepair
    /\ norm = NoNorm
    /\ RenderParked

RateParked ==
    /\ now = 0
    /\ rate_info = NoInfo
    /\ headers = NoHeaders
    /\ callers = [c \in Callers |-> IdleCaller]

BatchParked ==
    /\ store = [id \in Ids |-> NoRow]
    /\ uuids = <<>>
    /\ pc = "NONE"
    /\ goals = <<>>
    /\ gi = 0
    /\ templates = <<>>
    /\ tasks = <<>>
    /\ generated_memes = <<>>
    /\ uuid_memes = <<>>
    /\ image_tasks = <<>>
    /\ results = <<>>
    /\ response = NoResponse
    /\ log = {}

InitRate == RateParked /\ BatchParked /\ AuxParked

\* make_anthropic_request up to the provider call: the gate is consulted
\* once, and the coroutine sleeps for the computed time when told to wait;
\* an exception of should_wait leaves the coroutine before the try block
BeforeCall(c) ==
    /\ callers[c].pc = "idle"
    /\ IF ShouldWaitRaises(rate_info)
       THEN callers' = [callers EXCEPT ![c] = Finished("raised_gate", 0)]
       ELSE LET sw == ShouldWaitGlobal(rate_info, now)
            IN  callers' = [callers EXCEPT ![c] =
                               [pc |-> IF sw[1] THEN "sleeping" ELSE "calling",
                                gate_time |-> now,
                                wait |-> sw[2],
                                attempts |-> 0]]
    /\ UNCHANGED <<now, rate_info, headers>>
    /\ UNCHANGED <<batchVars, auxVars>>

\* variant: the gate is consulted again after the sleep
AfterSleepRechecking(c) ==
    LET sw == ShouldWaitGlobal(rate_info, now)
    IN  IF sw[1] /\ sw[2] > 0
        THEN [callers[c] EXCEPT !.gate_time = now, !.wait = sw[2]]
        ELSE [callers[c] EXCEPT !.pc = "calling"]

\* after the sleep the function goes on to prepare and send the request
AfterSleep(c) == [callers[c] EXCEPT !.pc = "calling"]

\* asyncio.sleep(wait_time) returns once wait_time has elapsed
Resume(c) ==
    /\ callers[c].pc = "sleeping"
    /\ now >= callers[c].gate_time + callers[c].wait
    /\ callers' = [callers EXCEPT ![c] = AfterSleep(c)]
    /\ UNCHANGED <<now, rate_info, headers>>
    /\ UNCHANGED <<batchVars, auxVars>>

\* update_anthropic_response: the snapshot is replaced by the one built from
\* the headers
UpdateAnthropicResponse(hs, t) == FromHeaders(hs, t)

\* the provider answers with headers of the set hss:
\* update_anthropic_response replaces the snapshot, unless from_headers
\* raises, which the except block logs and re-raises; raw_response.parse()
\* comes after the recording and ends in one of the ways of parsed
ResponseArrives(c, hss, parsed) ==
    /\ callers[c].pc = "calling"
    /\ \E hs \in hss :
          /\ IF FromHeadersRaises(hs)
             THEN /\ UNCHANGED <<rate_info, headers>>
                  /\ callers' = [callers EXCEPT ![c] =
                                    Finished("raised_recording", callers[c].attempts + 1)]
             ELSE /\ rate_info' = UpdateAnthropicResponse(hs, now)
                  /\ headers' = hs
                  /\ \E how \in parsed :
                        callers' = [callers EXCEPT ![c] =
                                       Finished(how, callers[c].attempts + 1)]
    /\ UNCHANGED now
    /\ UNCHANGED <<batchVars, auxVars>>

\* a response of any headers whose body parses
CallReturns(c) == ResponseArrives(c, ResponseHeaders(now), {"returned"})

\* variant of the except block: the call is sent again while retry_count is
\* below max_retries
AfterFailureRetrying(c) ==
    IF callers[c].attempts + 1 < MaxRetries
    THEN [callers[c] EXCEPT !.attempts = @ + 1]
    ELSE Finished("raised", callers[c].attempts + 1)

\* the except block: retry_count is logged and the exception re-raised
AfterFailure(c) == Finished("raised", callers[c].attempts + 1)

\* variant of the except block: the snapshot is dropped when a call fails
SnapshotAfterFailureDropped(info) == NoInfo

\* the except block assigns nothing to most_recent_rate_limit_info
SnapshotAfterFailure(info) == info

\* the provider call raises: logged and re-raised
CallRaises(c) ==
    /\ callers[c].pc = "calling"
    /\ callers' = [callers EXCEPT ![c] = AfterFailure(c)]
    /\ rate_info' = SnapshotAfterFailure(rate_info)
    /\ UNCHANGED <<now, headers>>
    /\ UNCHANGED <<batchVars, auxVars>>

WakeTimes == {callers[c].gate_time + callers[c].wait :
                 c \in {x \in Callers : callers[x].pc = "sleeping"}}

Running == {c \in Callers : callers[c].pc \in {"idle", "sleeping", "calling"}}

\* time passes while a request is under way (time before the first
\* snapshot changes nothing): one second, or up to the earliest pending
\* wake-up
Tick ==
    /\ Running # {}
    /\ rate_info # NoInfo
    /\ \/ now < MaxTime /\ now' = now + 1
       \/ \E w \in WakeTimes : w > now /\ (\A x \in WakeTimes : w <= x) /\ now' = w
    /\ UNCHANGED <<rate_info, headers, callers>>
    /\ UNCHANGED <<batchVars, auxVars>>

NextRate ==
    \/ \E c \in Callers : BeforeCall(c)
    \/ \E c \in Callers : Resume(c)
    \/ \E c \in Callers : CallReturns(c)
    \/ \E c \in Callers : CallRaises(c)
    \/ Tick

SpecRate == InitRate /\ [][NextRate]_vars

(* ------------------ the gate under successive requests ------------------ *)
\* the headers of one response: the same in every dimension, or a count
\* that is not a number in the requests dimension
GateHeaders(t) ==
    {[d \in Dimensions |-> h] : h \in DimHeaders(t)}
      \cup { [d \in Dimensions |->
                 IF d = "requests"
                 THEN [remaining |-> Garbage, reset |-> Value(t + ResetAhead)]
                 ELSE [remaining |-> Value(100), reset |-> Value(t + ResetAhead)]] }

\* a response whose body parses or whose parse() raises after the recording
CallAnswered(c) ==
    ResponseArrives(c, GateHeaders(now), {"returned", "raised_parsing"})

\* the coroutine goes on to its next make_anthropic_request (goals, then
\* template choice, then texts), whatever the outcome of the last one was
NextRequest(c) ==
    /\ callers[c].pc \notin {"idle", "sleeping", "calling"}
    /\ now < MaxTime
    /\ callers' = [callers EXCEPT ![c] = IdleCaller]
    /\ UNCHANGED <<now, rate_info, headers>>
    /\ UNCHANGED <<batchVars, auxVars>>

NextGate ==
    \/ \E c \in Callers : BeforeCall(c)
    \/ \E c \in Callers : Resume(c)
    \/ \E c \in Callers : CallAnswered(c)
    \/ \E c \in Callers : CallRaises(c)
    \/ \E c \in Callers : NextRequest(c)
    \/ Tick

SpecGate == InitRate /\ [][NextGate]_vars

(* ------------------------- parse, else repair --------------------------- *)
\* the texts a model answer can be: a JSON object, JSON of another type,
\* JSON inside a markdown fence, JSON cut short
JsonTexts == {"object", "array", "fenced", "truncated"}

\* JsonRepairer._is_valid_json, and whether json.loads returns
IsValidJson(text) == text \in {"object", "array"}

\* the parsed value has .get only when it is a dict
IsDict(text) == text = "object"

ParseCallers == {"generate_meme_goals", "generate_meme_texts"}

NewRepair(caller, content) ==
    [pc |-> "PARSE", caller |-> caller, content |-> content,
     fixed_json |-> "none", repair_requests |-> 0, wait |-> 0,
     exc |-> "none", value |-> "none"]

Returned(r, text) == [r EXCEPT !.pc = "RETURNED", !.value = text]
Raised(r, exc) == [r EXCEPT !.pc = "RAISED", !.exc = exc]

\* json.loads succeeded: the log line calls .get on the value, then the value
\* is returned
UseParsed(r, text) ==
    IF IsDict(text) THEN Returned(r, text) ELSE Raised(r, "AttributeError")

\* variant: a repaired text that is still invalid is sent to repair again
RepairedInvalidRetrying(r, fixed) ==
    [r EXCEPT !.pc = "REPAIR", !.content = fixed, !.fixed_json = fixed]

\* repair_json: "Claude API returned invalid JSON", wrapped into
\* ValueError("Failed to repair JSON: ...")
RepairedInvalid(r, fixed) == Raised([r EXCEPT !.fixed_json = fixed], "ValueError")

\* repair_json validates the answer and returns it; the caller parses it
AfterRepair(r, fixed) ==
    IF IsValidJson(fixed)
    THEN UseParsed([r EXCEPT !.fixed_json = fixed], fixed)
    ELSE RepairedInvalid(r, fixed)

\* the answer being parsed came through make_anthropic_request, so a
\* snapshot of its headers is recorded
InitRepair ==
    /\ BatchParked
    /\ norm = NoNorm
    /\ RenderParked
    /\ now = 0
    /\ callers = [c \in Callers |-> IdleCaller]
    /\ \E hs \in ResponseHeaders(0) :
          /\ ~FromHeadersRaises(hs)
          /\ headers = hs
          /\ rate_info = FromHeaders(hs, 0)
    /\ \E caller \in ParseCallers, content \in JsonTexts :
          repair = NewRepair(caller, content)

\* try: json.loads(content) ... except json.JSONDecodeError: repair
ParseContent ==
    /\ repair.pc = "PARSE"
    /\ repair' = IF IsValidJson(repair.content)
                 THEN UseParsed(repair, repair.content)
                 ELSE [repair EXCEPT !.pc = "REPAIR"]
    /\ UNCHANGED <<batchVars, rateVars, norm, renderVars>>

\* repair_json up to the provider call: make_anthropic_request consults the
\* gate and sleeps; an exception of the gate is wrapped into ValueError
RequestRepair ==
    /\ repair.pc = "REPAIR"
    /\ IF ShouldWaitRaises(rate_info)
       THEN /\ repair' = Raised([repair EXCEPT !.repair_requests = @ + 1], "ValueError")
            /\ now' = now
       ELSE LET sw == ShouldWaitGlobal(rate_info, now)
            IN  /\ repair' = [repair EXCEPT !.pc = "CALLED",
                                            !.repair_requests = @ + 1,
                                            !.wait = sw[2]]
                /\ now' = now + sw[2]
    /\ UNCHANGED <<batchVars, rate_info, headers, callers, norm, renderVars>>

\* the repair call ends: any exception is wrapped into ValueError; an answer
\* is validated, returned and parsed by the caller
RepairReturns ==
    /\ repair.pc = "CALLED"
    /\ \/ /\ repair' = Raised(repair, "ValueError")
          /\ UNCHANGED <<rate_info, headers>>
       \/ \E hs \in ResponseHeaders(now), fixed \in JsonTexts :
             IF FromHeadersRaises(hs)
             THEN /\ repair' = Raised(repair, "ValueError")
                  /\ UNCHANGED <<rate_info, headers>>
             ELSE /\ rate_info' = UpdateAnthropicResponse(hs, now)
                  /\ headers' = hs
                  /\ repair' = AfterRepair(repair, fixed)
    /\ UNCHANGED <<batchVars, now, callers, norm, renderVars>>

NextRepair ==
    \/ ParseContent
    \/ RequestRepair
    \/ RepairReturns

SpecRepair == InitRepair /\ [][NextRepair]_vars

(* ----------------- box geometry and caption normalisation --------------- *)
\* JSON values: a list, a string (with what json.loads makes of it), a dict
\* with a single key, a scalar, a box dict
List(items) == <<"list", items>>
Str(doc) == <<"str", doc>>
Obj1(v) == <<"obj1", v>>
Scalar(v) == <<"scalar", v>>
Invalid == <<"invalid">>

\* a box dict: the value under "id", the value under the first other key
\* whose name contains "id", and whether keys x and y are there
DictBox(id, alt, xy) == <<"dict", id, alt, xy>>
\* a box dict with "id", "x" and "y" and neither "width" nor "height"
DictBoxNoSize(id) == <<"dict", id, "absent", TRUE, "no_size">>
\* a box in list form: [id, label, x, y, width, height]
ListBox(id) == List(<<Scalar(id), Scalar("label"), Scalar("10"), Scalar("10"),
                      Scalar("30"), Scalar("10")>>)
\* a box in list form without its height
ListBoxNoHeight(id) ==
    List(<<Scalar(id), Scalar("label"), Scalar("10"), Scalar("10"), Scalar("30")>>)

Tag(v) == v[1]
IsList(v) == Tag(v) = "list"
IsStr(v) == Tag(v) = "str"
\* isinstance(v, dict)
IsDictValue(v) == Tag(v) \in {"obj1", "dict"}

BoxKinds ==
    { DictBox("1", "absent", TRUE),      \* {"id": 1, "x":.., "y":.., "width":.., "height":..}
      DictBox("2", "absent", TRUE),
      DictBox("absent", "absent", TRUE), \* {"x":.., "y":.., "w":.., "h":..}
      DictBox("absent", "30", TRUE),     \* {"x":.., "y":.., "width": 30, "height":..}
      DictBox("abc", "absent", TRUE),    \* {"id": "abc", ...}
      DictBox("9", "absent", TRUE),      \* {"id": 9, ...}
      DictBoxNoSize("2"),                \* {"id": 2, "x":.., "y":..}
      ListBox("1"),
      ListBoxNoHeight("2") }

BoxArrays == {List(b) : b \in BoundedSeq(BoxKinds, MaxBoxes) \ {<<>>}}

Encodings == {"array", "object", "string", "list_string", "list_list",
              "list_list_list"}

\* the ways the column text_box_coordinates holds one array of boxes
Encode(b, enc) ==
    CASE enc = "array" -> b
      [] enc = "object" -> Obj1(Str(b))
      [] enc = "string" -> Str(b)
      [] enc = "list_string" -> List(<<Str(b)>>)
      [] enc = "list_list" -> List(<<b>>)
      [] enc = "list_list_list" -> List(<<List(<<b>>)>>)

\* json.loads of a string value
JsonLoadsRaises(v) == v[2] = Invalid
JsonLoads(v) == v[2]

Normalised(v) == [raised |-> FALSE, value |-> v]
NormaliseRaised(v) == [raised |-> TRUE, value |-> v]

\* generate_memes_for_uuids, before text generation: only a non-empty list
\* is looked into; an exception leaves an empty list
NormaliseForText(raw) ==
    IF IsList(raw) /\ Len(raw[2]) > 0
    THEN LET first == raw[2][1]
         IN  IF IsStr(first)
             THEN IF JsonLoadsRaises(first) THEN Normalised(List(<<>>))
                  ELSE Normalised(JsonLoads(first))
             ELSE IF IsList(first) THEN Normalised(first)
             ELSE Normalised(raw)
    ELSE Normalised(raw)

\* process_meme_image, "Parse text_box_coordinates": one wrapper is taken off
NormaliseForRender(raw) ==
    IF IsDictValue(raw) /\ Tag(raw) = "obj1"
    THEN IF IsStr(raw[2])
         THEN IF JsonLoadsRaises(raw[2]) THEN NormaliseRaised(raw)
              ELSE Normalised(JsonLoads(raw[2]))
         ELSE Normalised(raw)
    ELSE IF IsStr(raw)
         THEN IF JsonLoadsRaises(raw) THEN NormaliseRaised(raw)
              ELSE Normalised(JsonLoads(raw))
    ELSE IF IsList(raw) /\ Len(raw[2]) = 1
         THEN LET first == raw[2][1]
              IN  IF IsStr(first)
                  THEN IF JsonLoadsRaises(first) THEN NormaliseRaised(raw)
                       ELSE Normalised(JsonLoads(first))
                  ELSE IF IsList(first) THEN Normalised(first)
                  ELSE Normalised(raw)
    ELSE Normalised(raw)

\* what the loop "for i, box in enumerate(text_box_coordinates)" goes over;
\* iterating a dict gives its keys
Elements(v) ==
    IF IsList(v) THEN v[2]
    ELSE IF Tag(v) = "obj1" THEN <<Scalar("key")>>
    ELSE <<>>

\* box_id as the loop body finds it: box.get('id'), else the value of the
\* first key containing "id"; box[0] of a list of 5 or more; else None
BoxId(box) ==
    IF Tag(box) = "dict"
    THEN IF box[2] # "absent" THEN box[2] ELSE box[3]
    ELSE IF IsList(box) /\ Len(box[2]) >= 5
         THEN IF Tag(box[2][1]) = "scalar" THEN box[2][1][2] ELSE "object"
    ELSE "absent"

\* box_coords: filled together with the id, {} otherwise
BoxCoords(box) ==
    IF Tag(box) = "dict"
    THEN IF box[2] # "absent" THEN "full"
         ELSE IF box[3] # "absent" /\ box[4] THEN "full" ELSE "empty"
    ELSE IF IsList(box) /\ Len(box[2]) >= 5 THEN "full"
    ELSE "empty"

\* int(box_id)
IntTexts == {"1", "2", "9", "30"}
IntOf(text) ==
    CASE text = "1" -> 1 [] text = "2" -> 2 [] text = "9" -> 9 [] text = "30" -> 30

\* text if text else ""
TextOrEmpty(t) == IF t = NoText THEN "" ELSE t

\* box_coords['width'] and box_coords['height'], 0 when box_coords is {};
\* the boxes that carry a width carry 30, those that carry a height 15
BoxWidth(box) ==
    IF BoxCoords(box) = "empty" THEN 0
    ELSE IF Tag(box) = "dict" /\ Len(box) = 5 THEN DefaultBoxWidth
    ELSE 30
BoxHeight(box) ==
    IF BoxCoords(box) = "empty" THEN 0
    ELSE IF Tag(box) = "dict" /\ Len(box) = 5 THEN DefaultBoxHeight
    ELSE IF IsList(box) /\ Len(box[2]) <= 5 THEN DefaultBoxHeight
    ELSE 15

\* texts.append(text if text else ""); coordinates.append(box_coords), for the
\* box at position i and the caption at 0-based position index
Pair(i, index, tb, box) ==
    [text |-> TextOrEmpty(tb[index + 1]), coords |-> BoxCoords(box),
     pos |-> i, index |-> index,
     width |-> BoxWidth(box), height |-> BoxHeight(box)]

\* one pass of the loop body for the box at 0-based position i: the texts and
\* coordinates it appends
PairsOfBox(i, box, tb) ==
    LET box_id == BoxId(box)
    IN  IF box_id = "absent"
        THEN \* no id: the position in the array is used
             IF i < Len(tb) THEN <<Pair(i, i, tb, box)>> ELSE <<>>
        ELSE IF box_id = "object"
             THEN \* int() raises TypeError: logged, next box
                  <<>>
        ELSE IF box_id \in IntTexts
             THEN IF 0 <= IntOf(box_id) - 1 /\ IntOf(box_id) - 1 < Len(tb)
                  THEN <<Pair(i, IntOf(box_id) - 1, tb, box)>>
                  ELSE <<>>
        ELSE \* int() raises ValueError: the position in the array is used
             IF i < Len(tb) THEN <<Pair(i, i, tb, box)>> ELSE <<>>

RECURSIVE ExtractFrom(_, _, _)
ExtractFrom(els, i, tb) ==
    IF i >= Len(els) THEN <<>>
    ELSE PairsOfBox(i, els[i + 1], tb) \o ExtractFrom(els, i + 1, tb)

ExtractPairs(v, tb) == ExtractFrom(Elements(v), 0, tb)

\* "No valid text box coordinates found", then add_text_at_coordinates: a
\* text that is not empty needs x, y, width and height
RenderRaises(pairs) ==
    \/ pairs = <<>>
    \/ \E k \in 1..Len(pairs) : pairs[k].text # "" /\ pairs[k].coords = "empty"

\* variant: the geometry of a box is appended only when there is some
AppendBothGeometryIfAny(lists, text, box_coords) ==
    [texts |-> Append(lists.texts, text),
     coordinates |-> IF box_coords = "empty" THEN lists.coordinates
                     ELSE Append(lists.coordinates, box_coords)]

\* texts.append(...) followed by coordinates.append(box_coords)
AppendBoth(lists, text, box_coords) ==
    [texts |-> Append(lists.texts, text),
     coordinates |-> Append(lists.coordinates, box_coords)]

\* the lists texts and coordinates after the loop over the boxes
RECURSIVE RenderInputs(_)
RenderInputs(pairs) ==
    IF pairs = <<>> THEN [texts |-> <<>>, coordinates |-> <<>>]
    ELSE LET last == pairs[Len(pairs)]
         IN  AppendBoth(RenderInputs(SubSeq(pairs, 1, Len(pairs) - 1)),
                        last.text, last.coords)

\* the ValueError that ends the rendering, "none" when there is none:
\* process_meme_image refuses an empty coordinates list, then
\* add_text_at_coordinates validates the two lists and, for every caption
\* that is not empty, the keys of its geometry
AddTextError(texts, coordinates) ==
    IF coordinates = <<>> THEN "no_coordinates"
    ELSE IF texts = <<>> THEN "no_texts"
    ELSE IF Len(texts) # Len(coordinates) THEN "mismatch"
    ELSE IF \E k \in 1..Len(texts) : texts[k] # "" /\ coordinates[k] = "empty"
         THEN "missing_keys"
    ELSE "none"

\* the model answers the normalisation is fed with
ChoicesWide ==
    Choices \cup { [text1 |-> "plain", text_1 |-> "under"],
                   [text_3 |-> "c", text7 |-> "d", text0 |-> "z"],
                   [text1 |-> "", text2 |-> "second"] }

NewNorm(b, enc, choice) ==
    [pc |-> "TEMPLATE", boxes |-> b, enc |-> enc, raw |-> Encode(b, enc),
     choice |-> choice, text_boxes |-> <<>>,
     for_text |-> Normalised(List(<<>>)), for_render |-> Normalised(List(<<>>)),
     pairs |-> <<>>, outcome |-> "none",
     texts |-> <<>>, coordinates |-> <<>>, error |-> "none"]

InitNormalise ==
    /\ BatchParked
    /\ RateParked
    /\ repair = NoRepair
    /\ RenderParked
    /\ \E b \in BoxArrays, enc \in Encodings, choice \in ChoicesWide :
          norm = NewNorm(b, enc, choice)

\* the template found for a goal has its text_box_coordinates looked into
NormaliseBeforeText ==
    /\ norm.pc = "TEMPLATE"
    /\ norm' = [norm EXCEPT !.pc = "CHOICE", !.for_text = NormaliseForText(norm.raw)]
    /\ UNCHANGED <<batchVars, rateVars, repair, renderVars>>

\* a text choice of the model becomes the 7 text_boxes
ConvertChoice ==
    /\ norm.pc = "CHOICE"
    /\ norm' = [norm EXCEPT !.pc = "RENDER", !.text_boxes = TextBoxes(norm.choice)]
    /\ UNCHANGED <<batchVars, rateVars, repair, renderVars>>

\* process_meme_image up to the upload: the column is read again, parsed,
\* the boxes are paired with the captions and drawn; any exception ends in
\* return None
RenderMeme ==
    /\ norm.pc = "RENDER"
    /\ LET parsed == NormaliseForRender(norm.raw)
           pairs == IF parsed.raised THEN <<>>
                    ELSE ExtractPairs(parsed.value, norm.text_boxes)
           lists == RenderInputs(pairs)
       IN  norm' = [norm EXCEPT !.pc = "DONE",
                                !.for_render = parsed,
                                !.pairs = pairs,
                                !.texts = lists.texts,
                                !.coordinates = lists.coordinates,
                                !.error = IF parsed.raised THEN "parse"
                                          ELSE AddTextError(lists.texts,
                                                            lists.coordinates),
                                !.outcome = IF parsed.raised \/ RenderRaises(pairs)
                                            THEN "failed" ELSE "rendered"]
    /\ UNCHANGED <<batchVars, rateVars, repair, renderVars>>

NextNormalise ==
    \/ NormaliseBeforeText
    \/ ConvertChoice
    \/ RenderMeme

SpecNormalise == InitNormalise /\ [][NextNormalise]_vars

(* ------------------------ text overlay (compositor) --------------------- *)
\* a caption is kept as its number of characters and the lengths of the words
\* text.split() finds in it
Caption(ws) ==
    [chars |-> IF Len(ws) = 0 THEN 0
               ELSE Len(ws) - 1 + SumSeq(ws), words |-> ws]
EmptyCaption == [chars |-> 0, words |-> <<>>]
BlankCaption == [chars |-> 1, words |-> <<>>]
WordLengths == {3}
Captions ==
    {EmptyCaption, BlankCaption}
    \cup {Caption(ws) : ws \in BoundedSeq(WordLengths, MaxWords) \ {<<>>}}

\* the template image: width and height in pixels
ImageSizes == {<<100, 300>>}

\* a box of the template, in percent of the image; complete is FALSE when one
\* of the keys x, y, width, height is missing
BoxSizes == {<<20, 8>>, <<20, 3>>, <<100, 4>>, <<100, 100>>}
Boxes ==
    {[complete |-> TRUE, x |-> 100 - wh[1], y |-> (100 - wh[2]) \div 2,
      width |-> wh[1], height |-> wh[2]] : wh \in BoxSizes}
    \cup {[complete |-> FALSE, x |-> 10, y |-> 10, width |-> 20, height |-> 8]}

OverlayLengths == {0, 1, 2}
ListsOf(S) == UNION {[1..n -> S] : n \in OverlayLengths}

\* int((percent / 100) * size); the percentages above are ones at which the
\* floating-point product is the exact one
ToPixels(percent, size) == (percent * size) \div 100

\* number of characters of ' '.join(line)
LineChars(line) == Len(line) - 1 + SumSeq(line)

\* draw.textbbox: every glyph is half an em wide and a line is one em high;
\* the width is kept doubled
TextWidth2(line, font_size) == LineChars(line) * font_size
LineHeight(line, font_size) == font_size

Flush(current_line) == IF current_line # <<>> THEN <<current_line>> ELSE <<>>

\* wrap_text: greedy; a word too wide for the box still gets a line
RECURSIVE WrapFrom(_, _, _, _, _)
WrapFrom(words, k, current_line, max_width, font_size) ==
    IF k > Len(words) THEN Flush(current_line)
    ELSE IF TextWidth2(Append(current_line, words[k]), font_size) <= 2 * max_width
         THEN WrapFrom(words, k + 1, Append(current_line, words[k]),
                       max_width, font_size)
         ELSE Flush(current_line)
                 \o WrapFrom(words, k + 1, <<words[k]>>, max_width, font_size)

\* variant of wrap_text: a word wider than the box is left out
WrapTextDroppingWide(text, max_width, font_size) ==
    WrapFrom(SelectSeq(text.words,
                       LAMBDA w : TextWidth2(<<w>>, font_size) <= 2 * max_width),
             1, <<>>, max_width, font_size)

WrapText(text, max_width, font_size) ==
    WrapFrom(text.words, 1, <<>>, max_width, font_size)

\* total_height * 1.2 <= box_height, with total_height the sum of the line
\* heights plus (n - 1) * (line_height * 0.2); both sides times 25
AdjustedFits(text_lines, font_size, box_height) ==
    LET n == Len(text_lines)
        total5 == IF n = 0 THEN 0
                  ELSE 5 * SumSeq([k \in 1..n |-> LineHeight(text_lines[k], font_size)])
                         + (IF n > 1
                            THEN (n - 1) * LineHeight(text_lines[n], font_size)
                            ELSE 0)
    IN  6 * total5 <= 25 * box_height

NoSize == 0

FittingSizes(text, box_width, box_height, max_font) ==
    {font_size \in MIN_FONT_SIZE..max_font :
        AdjustedFits(WrapText(text, box_width, font_size), font_size, box_height)}

\* variant: the search goes up from the smallest size
SearchFromSmallest(text, box_width, box_height, max_font) ==
    LET fitting == FittingSizes(text, box_width, box_height, max_font)
    IN  IF fitting = {} THEN NoSize
        ELSE CHOOSE font_size \in fitting : \A other \in fitting : font_size <= other

\* for font_size in range(max_font, MIN_FONT_SIZE - 1, -1): the first size
\* met on the way down that fits is returned
SearchFrom(text, box_width, box_height, max_font) ==
    LET fitting == FittingSizes(text, box_width, box_height, max_font)
    IN  IF fitting = {} THEN NoSize
        ELSE CHOOSE font_size \in fitting : \A other \in fitting : other <= font_size

\* calculate_optimal_font: the search runs when the Impact face was found;
\* otherwise, and when no size fits, the fallback font is used
CalculateOptimalFont(text, box_width, box_height, font_path) ==
    LET found == IF font_path
                 THEN SearchFrom(text, box_width, box_height, MAX_FONT_SIZE)
                 ELSE NoSize
        size == IF found # NoSize THEN found
                ELSE IF font_path THEN MIN_FALLBACK_FONT_SIZE
                ELSE DefaultFontSize
    IN  [size |-> size, fallback |-> found = NoSize,
         text_lines |-> WrapText(text, box_width, size)]

Skipped == [size |-> NoSize, fallback |-> FALSE, text_lines |-> <<>>]

\* one call of draw.text, draw.rectangle; y is kept in fifths of a pixel
DrawOp(kind, fill, x, y5, line) ==
    [op |-> kind, fill |-> fill, x |-> x, y5 |-> y5, line |-> line]

\* outline_offsets, in the order of the comprehension
OutlineOffsets ==
    [j \in 1..((2 * OutlineReach + 1) * (2 * OutlineReach + 1)) |->
        <<((j - 1) \div (2 * OutlineReach + 1)) - OutlineReach,
          ((j - 1) % (2 * OutlineReach + 1)) - OutlineReach>>]

\* variant: the body is drawn before the outline
DrawLineFillFirst(line, x, current_y5) ==
    <<DrawOp("text", "white", x, current_y5, line)>>
    \o [j \in 1..Len(OutlineOffsets) |->
          DrawOp("text", "black", x + OutlineOffsets[j][1],
                 current_y5 + 5 * OutlineOffsets[j][2], line)]

\* the outline strokes of one line, then its white body
DrawLine(line, x, current_y5) ==
    [j \in 1..Len(OutlineOffsets) |->
          DrawOp("text", "black", x + OutlineOffsets[j][1],
                 current_y5 + 5 * OutlineOffsets[j][2], line)]
    \o <<DrawOp("text", "white", x, current_y5, line)>>

\* for line in text_lines: ...; current_y += line_height + line_spacing
RECURSIVE DrawLines(_, _, _, _, _)
DrawLines(text_lines, k, x, current_y5, line_height) ==
    IF k > Len(text_lines) THEN <<>>
    ELSE DrawLine(text_lines[k], x, current_y5)
            \o DrawLines(text_lines, k + 1, x, current_y5 + 6 * line_height,
                         line_height)

DebugBox(x, y, box_id) ==
    <<DrawOp("rectangle", "red", x, 5 * y, <<>>),
      DrawOp("id", "red", x + 5, 5 * (y + 5), <<box_id>>)>>

\* render_outlined_text; text_lines[0] raises IndexError when the caption
\* has no word
RenderOutlinedText(text, x, y, box_w, box_h, box_id, ov) ==
    LET fit == CalculateOptimalFont(text, box_w, box_h, ov.font_path)
    IN  IF Len(fit.text_lines) = 0
        THEN [raised |-> TRUE, fit |-> fit, ops |-> <<>>]
        ELSE [raised |-> FALSE, fit |-> fit,
              ops |-> (IF ov.debug_boxes THEN DebugBox(x, y, box_id) ELSE <<>>)
                      \o DrawLines(fit.text_lines, 1, x, 5 * y,
                                   LineHeight(fit.text_lines[1], fit.size))]

Outcome(error, ops, fits) == [error |-> error, ops |-> ops, fits |-> fits]

\* the loop over zip(texts, coordinates)
RECURSIVE BoxesFrom(_, _, _, _)
BoxesFrom(ov, i, ops, fits) ==
    IF i > Len(ov.texts) THEN Outcome("none", ops, fits)
    ELSE IF ov.texts[i].chars = 0
         THEN BoxesFrom(ov, i + 1, ops, Append(fits, Skipped))
    ELSE IF ~ov.coordinates[i].complete
         THEN Outcome("ValueError", ops, fits)
    ELSE LET coord == ov.coordinates[i]
             r == RenderOutlinedText(ov.texts[i],
                                     ToPixels(coord.x, ov.image[1]),
                                     ToPixels(coord.y, ov.image[2]),
                                     ToPixels(coord.width, ov.image[1]),
                                     ToPixels(coord.height, ov.image[2]),
                                     i, ov)
         IN  IF r.raised THEN Outcome("RuntimeError", ops, fits)
             ELSE BoxesFrom(ov, i + 1, ops \o r.ops, Append(fits, r.fit))

\* variant: only the two lengths are compared
InputsInvalidLengthsOnly(texts, coordinates) == Len(texts) # Len(coordinates)

\* if not coordinates / if not texts / if len(texts) != len(coordinates)
InputsInvalid(texts, coordinates) ==
    \/ Len(coordinates) = 0
    \/ Len(texts) = 0
    \/ Len(texts) # Len(coordinates)

NewOverlay(texts, coordinates, image, font_path, debug_boxes) ==
    [pc |-> "new", texts |-> texts, coordinates |-> coordinates,
     image |-> image, font_path |-> font_path, debug_boxes |-> debug_boxes,
     error |-> "none", ops |-> <<>>, fits |-> <<>>]

InitOverlay ==
    /\ RateParked /\ BatchParked
    /\ repair = NoRepair
    /\ norm = NoNorm
    /\ image_jobs = NoJobs
    /\ \E texts \in ListsOf(Captions), coordinates \in ListsOf(Boxes),
          image \in ImageSizes, font_path \in BOOLEAN, debug_boxes \in BOOLEAN :
          overlay = NewOverlay(texts, coordinates, image, font_path, debug_boxes)

\* add_text_at_coordinates, from the validation to the return or the raise
AddTextAtCoordinates ==
    /\ overlay.pc = "new"
    /\ \E out \in {IF InputsInvalid(overlay.texts, overlay.coordinates)
                    THEN Outcome("ValueError", <<>>, <<>>)
                    ELSE BoxesFrom(overlay, 1, <<>>, <<>>)} :
          overlay' = [overlay EXCEPT
                        !.pc = IF out.error = "none" THEN "returned" ELSE "raised",
                        !.error = out.error, !.ops = out.ops, !.fits = out.fits]
    /\ UNCHANGED <<batchVars, rateVars, repair, norm, image_jobs>>

NextOverlay == AddTextAtCoordinates
SpecOverlay == InitOverlay /\ [][NextOverlay]_vars

(* ------------------------- wrap_text on its own ------------------------- *)
\* captions of words of different lengths, box widths in pixels and font
\* sizes, the fallback size among them
WrapWordLengths == {2, 3, 9}
WrapCaptions ==
    {BlankCaption}
    \cup {Caption(ws) : ws \in BoundedSeq(WrapWordLengths, MaxWrapWords) \ {<<>>}}
WrapWidths == {5, 30, 100}
WrapFontSizes == {MIN_FONT_SIZE, MIN_FALLBACK_FONT_SIZE, MAX_FONT_SIZE}

InitWrap ==
    /\ BatchParked
    /\ RateParked
    /\ repair = NoRepair
    /\ norm = NoNorm
    /\ image_jobs = NoJobs
    /\ \E text \in WrapCaptions, max_width \in WrapWidths, font_size \in WrapFontSizes :
          overlay = [pc |-> "WRAP", text |-> text, max_width |-> max_width,
                     font_size |-> font_size, lines |-> <<>>]

\* lines = self.wrap_text(text, max_width, font)
WrapTextCall ==
    /\ overlay.pc = "WRAP"
    /\ overlay' = [overlay EXCEPT
                      !.pc = "WRAPPED",
                      !.lines = WrapText(overlay.text, overlay.max_width,
                                         overlay.font_size)]
    /\ UNCHANGED <<batchVars, rateVars, repair, norm, image_jobs>>

NextWrap == WrapTextCall

SpecWrap == InitWrap /\ [][NextWrap]_vars

(* -------------------- render/upload tasks and the store ----------------- *)
\* one coroutine that opens a store connection: where it stands, the state of
\* the connection it opened, the uploads it tried and the sleeps it took
NewJob ==
    [st |-> "pending", conn |-> "none", attempts |-> 0, slept |-> <<>>,
     result |-> None]

RECURSIVE Pow2(_)
Pow2(n) == IF n = 0 THEN 1 ELSE 2 * Pow2(n - 1)

\* variant: the same delay before every retry
BackoffDelayFlat(attempt) == RetryDelay

\* time.sleep(self.retry_delay * (2 ** attempt)), attempt counted from 0
BackoffDelay(attempt) == RetryDelay * Pow2(attempt)

\* one generate_meme_texts coroutine: where it stands, whether its prompt
\* carries an examples section, and what made it raise
NewText == [st |-> "pending", examples_section |-> FALSE, cause |-> "none"]

NewJobs ==
    [pc |-> "gather", jobs |-> [k \in 1..NumJobs |-> NewJob],
     examples |-> NewJob, text |-> NewText, running |-> 0]

InitImages ==
    /\ RateParked /\ BatchParked
    /\ repair = NoRepair
    /\ norm = NoNorm
    /\ overlay = NoOverlay
    /\ image_jobs = NewJobs

EndJob(job, result) == [job EXCEPT !.st = "done", !.result = result]

\* the dict get_template_meme_examples returns, kept as its number of rows
Examples(rows) == <<"examples", rows>>

\* if examples and (examples.get('most_liked') or examples.get('most_disliked'))
HasExamplesSection(examples) ==
    IF examples = None THEN FALSE ELSE examples[2] > 0

\* variant: a lookup that returned None fails the text task
AfterLookupStrict(examples) ==
    IF examples = None
    THEN [st |-> "fail", examples_section |-> FALSE, cause |-> "lookup"]
    ELSE [st |-> "called", examples_section |-> HasExamplesSection(examples),
          cause |-> "none"]

\* generate_meme_texts after the lookup: the prompt is formatted with
\* whatever the lookup returned and the provider is called
AfterLookup(examples) ==
    [st |-> "called", examples_section |-> HasExamplesSection(examples),
     cause |-> "none"]

LookupOutcomes ==
    {"connect_failed", "query_failed", "no_template_row", "examples_failed",
     "none_found", "found"}

\* get_template_examples: every exception is answered with None, and
\* conn.close() is reached only when nothing raised after the connect
LookupResult(outcome) ==
    CASE outcome = "connect_failed" -> [conn |-> "none", result |-> None]
      [] outcome \in {"query_failed", "examples_failed"} ->
            [conn |-> "open", result |-> None]
      [] outcome = "no_template_row" -> [conn |-> "closed", result |-> None]
      [] outcome = "none_found" -> [conn |-> "closed", result |-> Examples(0)]
      [] outcome = "found" -> [conn |-> "closed", result |-> Examples(1)]

\* generate_meme_texts up to its provider call: without an API key it
\* raises at once; otherwise it awaits get_template_examples, which runs
\* from its connect to its return without leaving the thread
GetTemplateExamples ==
    /\ image_jobs.pc = "gather"
    /\ image_jobs.running = 0
    /\ image_jobs.text.st = "pending"
    /\ \/ image_jobs' = [image_jobs EXCEPT !.text.st = "fail",
                                            !.text.cause = "api_key"]
       \/ \E outcome \in LookupOutcomes :
             LET r == LookupResult(outcome)
             IN  image_jobs' =
                    [image_jobs EXCEPT
                       !.examples = EndJob([@ EXCEPT !.conn = r.conn], r.result),
                       !.text = AfterLookup(r.result)]
    /\ UNCHANGED <<batchVars, rateVars, repair, norm, overlay>>

\* the provider call of generate_meme_texts comes back: the parsed choices,
\* or an exception of the call or of the parsing
TextReturns ==
    /\ image_jobs.text.st = "called"
    /\ \E outcome \in {"ok", "provider", "parse"} :
          image_jobs' =
             IF outcome = "ok"
             THEN [image_jobs EXCEPT !.text.st = "ok"]
             ELSE [image_jobs EXCEPT !.text.st = "fail", !.text.cause = outcome]
    /\ UNCHANGED <<batchVars, rateVars, repair, norm, overlay>>

\* the event loop starts the coroutines of the gather in submission order;
\* process_meme_image holds the thread from here to its return: it fetches
\* the template image, connects to the store and sends its query
StartJob(k) ==
    /\ image_jobs.pc = "gather"
    /\ image_jobs.running = 0
    /\ k \in 1..NumJobs
    /\ image_jobs.jobs[k].st = "pending"
    /\ \A j \in 1..(k - 1) : image_jobs.jobs[j].st = "done"
    /\ \E outcome \in {"image_failed", "connect_failed", "connected"} :
          image_jobs' =
             IF outcome = "connected"
             THEN [image_jobs EXCEPT !.running = k,
                                     !.jobs[k].st = "querying",
                                     !.jobs[k].conn = "open"]
             ELSE [image_jobs EXCEPT !.jobs[k] = EndJob(@, None)]
    /\ UNCHANGED <<batchVars, rateVars, repair, norm, overlay>>

\* the query returns: without coordinates, or when it raised, the function
\* leaves through the handlers and conn.close() is not reached; otherwise
\* the connection is closed, the captions are drawn and the first upload
\* attempt is sent
QueryReturns(k) ==
    /\ image_jobs.running = k
    /\ image_jobs.jobs[k].st = "querying"
    /\ \E outcome \in {"query_failed", "no_coordinates", "render_error", "drawn"} :
          image_jobs' =
             CASE outcome \in {"query_failed", "no_coordinates"} ->
                     [image_jobs EXCEPT !.running = 0,
                                        !.jobs[k] = EndJob(@, None)]
               [] outcome = "render_error" ->
                     [image_jobs EXCEPT !.running = 0,
                                        !.jobs[k] =
                                           EndJob([@ EXCEPT !.conn = "closed"], None)]
               [] outcome = "drawn" ->
                     [image_jobs EXCEPT !.jobs[k].conn = "closed",
                                        !.jobs[k].st = "uploading",
                                        !.jobs[k].attempts = 1]
    /\ UNCHANGED <<batchVars, rateVars, repair, norm, overlay>>

\* one pass of the loop of upload_image comes back: the URL on success; on a
\* ClientError or any other exception the sleep before the next attempt, or
\* None after the last one
UploadReturns(k) ==
    /\ image_jobs.running = k
    /\ image_jobs.jobs[k].st = "uploading"
    /\ \E outcome \in {"stored", "ClientError", "Exception"} :
          LET job == image_jobs.jobs[k]
              attempt == job.attempts - 1
          IN  image_jobs' =
                 IF outcome = "stored"
                 THEN [image_jobs EXCEPT !.running = 0,
                                         !.jobs[k] = EndJob(@, CdnUrl(k))]
                 ELSE IF attempt < UploadMaxRetries - 1
                 THEN [image_jobs EXCEPT
                         !.jobs[k].st = "backoff",
                         !.jobs[k].slept = Append(@, BackoffDelay(attempt))]
                 ELSE [image_jobs EXCEPT !.running = 0,
                                         !.jobs[k] = EndJob(@, None)]
    /\ UNCHANGED <<batchVars, rateVars, repair, norm, overlay>>

\* time.sleep returns and the next attempt is sent
BackoffEnds(k) ==
    /\ image_jobs.running = k
    /\ image_jobs.jobs[k].st = "backoff"
    /\ image_jobs' = [image_jobs EXCEPT !.jobs[k].st = "uploading",
                                        !.jobs[k].attempts = @ + 1]
    /\ UNCHANGED <<batchVars, rateVars, repair, norm, overlay>>

\* a connection that was left open is closed when the interpreter frees the
\* connection object, at a time the program does not control
ConnectionCollected ==
    /\ \/ /\ image_jobs.examples.st = "done"
          /\ image_jobs.examples.conn = "open"
          /\ image_jobs' = [image_jobs EXCEPT !.examples.conn = "closed"]
       \/ \E k \in 1..NumJobs :
             /\ image_jobs.jobs[k].st = "done"
             /\ image_jobs.jobs[k].conn = "open"
             /\ image_jobs' = [image_jobs EXCEPT !.jobs[k].conn = "closed"]
    /\ UNCHANGED <<batchVars, rateVars, repair, norm, overlay>>

\* results = await asyncio.gather(...)
GatherImages ==
    /\ image_jobs.pc = "gather"
    /\ \A k \in 1..NumJobs : image_jobs.jobs[k].st = "done"
    /\ image_jobs' = [image_jobs EXCEPT !.pc = "gathered"]
    /\ UNCHANGED <<batchVars, rateVars, repair, norm, overlay>>

NextImages ==
    \/ GetTemplateExamples
    \/ TextReturns
    \/ \E k \in 1..NumJobs : StartJob(k)
    \/ \E k \in 1..NumJobs : QueryReturns(k)
    \/ \E k \in 1..NumJobs : UploadReturns(k)
    \/ \E k \in 1..NumJobs : BackoffEnds(k)
    \/ ConnectionCollected
    \/ GatherImages

SpecImages == InitImages /\ [][NextImages]_vars

(* ------------------------ assignment on its own ------------------------- *)
PoolEntries == {[template_id |-> t, text_boxes |-> TextBoxes(c)] :
                   t \in Templates, c \in Choices}

\* a non-empty pool and pairwise distinct identifiers, as left by the
\* earlier stages
InitAssign ==
    /\ RateParked
    /\ AuxParked
    /\ store = [id \in Ids |-> NoRow]
    /\ \E n \in 0..MaxAssignUuids : uuids = [i \in 1..n |-> i]
    /\ pc = "ASSIGN"
    /\ goals = <<>>
    /\ gi = 0
    /\ templates = <<>>
    /\ tasks = <<>>
    /\ generated_memes \in (BoundedSeq(PoolEntries, MaxPool) \ {<<>>})
    /\ uuid_memes = <<>>
    /\ image_tasks = <<>>
    /\ results = <<>>
    /\ response = NoResponse
    /\ log = {}

\* one iteration of: for i, uuid in enumerate(uuids): uuid_memes.append(...)
AssignStep ==
    /\ pc = "ASSIGN"
    /\ Len(uuid_memes) < Len(uuids)
    /\ uuid_memes' = Append(uuid_memes,
                            SlotFor(Len(uuid_memes), uuids[Len(uuid_memes) + 1],
                                    generated_memes))
    /\ UNCHANGED <<store, uuids, pc, goals, gi, templates, tasks, generated_memes,
                   image_tasks, results, response, log>>
    /\ UNCHANGED <<rateVars, auxVars>>

NextAssign == AssignStep

SpecAssign == InitAssign /\ [][NextAssign]_vars

(* --------------------------- batch: initial state ----------------------- *)
\* rows 1..n of table memes exist; the request names any identifiers
InitBatch ==
    /\ \E n \in 0..NumIds :
          store = [id \in Ids |-> IF id <= n THEN InitialRow ELSE NoRow]
    /\ uuids \in BoundedSeq(Ids, MaxUuids)
    /\ pc = "VALIDATING"
    /\ goals = <<>>
    /\ gi = 0
    /\ templates = <<>>
    /\ tasks = <<>>
    /\ generated_memes = <<>>
    /\ uuid_memes = <<>>
    /\ image_tasks = <<>>
    /\ results = <<>>
    /\ response = NoResponse
    /\ log = {}
    /\ RateParked
    /\ AuxParked

(* ------------------------------ VALIDATING ------------------------------ *)
\* SELECT id FROM memes WHERE id = ANY(uuids)
FoundUuids(st, ids) == {u \in Range(ids) : st[u] # NoRow}

\* variant: the request is refused only when none of its identifiers is stored
ValidationFailsNoneFound(st, ids) == ids # <<>> /\ FoundUuids(st, ids) = {}

\* variant: the request is refused when some identifier is not stored
ValidationFailsMissingOnly(st, ids) == Range(ids) \ FoundUuids(st, ids) # {}

\* len(found_uuids) != len(uuids)
ValidationFails(st, ids) == Cardinality(FoundUuids(st, ids)) # Len(ids)

Validate ==
    /\ pc = "VALIDATING"
    /\ IF ValidationFails(store, uuids)
       THEN Fail("ValueError", "UUIDs not found in database")
       ELSE pc' = "GOALS" /\ response' = response
    /\ UNCHANGED <<store, uuids, goals, gi, templates, tasks, generated_memes,
                   uuid_memes, image_tasks, results, log>>
    /\ UNCHANGED <<rateVars, auxVars>>

(* --------------------------------- GOALS -------------------------------- *)
GoalOutcomes == {"provider_error", "unusable_output", "repair_failed",
                 "no_goal_list", "goals"}

\* ValueError for empty/invalid responses and failed repair, the provider's
\* own exception otherwise
GoalFailure(outcome) ==
    IF outcome = "provider_error" THEN "APIError" ELSE "ValueError"

\* variant: a failed goal generation yields an empty goal list
GoalsOfDefaulting(outcome, n) ==
    IF outcome = "goals"
    THEN [raised |-> FALSE, meme_goals |-> [i \in 1..n |-> i]]
    ELSE [raised |-> FALSE, meme_goals |-> <<>>]

\* generate_meme_goals re-raises whatever went wrong; a dict without
\* "meme_goals" raises ValueError in the caller
GoalsOf(outcome, n) ==
    IF outcome = "goals"
    THEN [raised |-> FALSE, meme_goals |-> [i \in 1..n |-> i]]
    ELSE [raised |-> TRUE, meme_goals |-> <<>>]

GenerateGoals ==
    /\ pc = "GOALS"
    /\ \E outcome \in GoalOutcomes, n \in 0..NumGoals :
          /\ outcome # "goals" => n = 0
          /\ log' = log \cup {"goals"}
                        \cup (IF outcome = "goals" THEN {} ELSE {"goals_failed"})
          /\ LET r == GoalsOf(outcome, n)
             IN  IF r.raised
                 THEN /\ Fail(GoalFailure(outcome), outcome)
                      /\ UNCHANGED <<goals, gi>>
                 ELSE /\ goals' = r.meme_goals
                      /\ gi' = 1
                      /\ pc' = "TEMPLATES"
                      /\ response' = response
    /\ UNCHANGED <<store, uuids, templates, tasks, generated_memes,
                   uuid_memes, image_tasks, results>>
    /\ UNCHANGED <<rateVars, auxVars>>

(* ------------------------------- TEMPLATES ------------------------------ *)
\* find_similar_templates: at most top_k distinct rows, or an exception that
\* the loop over the goals does not catch
TemplateLists == {t \in BoundedSeq(Templates, TopK) : Injective(t)}

NewTask == [st |-> "pending", attempts |-> 0, res |-> NoResult]

FindTemplates ==
    /\ pc = "TEMPLATES"
    /\ gi <= Len(goals)
    /\ log' = log \cup {"templates"}
    /\ \/ /\ Fail("DatabaseError", "find_similar_templates")
          /\ UNCHANGED <<templates, tasks>>
       \/ \E tpls \in TemplateLists :
             /\ templates' = tpls
             /\ tasks' = [k \in 1..Len(tpls) |-> NewTask]
             /\ pc' = "TEXT"
             /\ response' = response
    /\ UNCHANGED <<store, uuids, goals, gi, generated_memes, uuid_memes,
                   image_tasks, results>>
    /\ UNCHANGED <<rateVars, auxVars>>

(* ---------------------------------- TEXT -------------------------------- *)
\* the gathered coroutines start in submission order and run up to the
\* provider call
StartText(k) ==
    /\ pc = "TEXT"
    /\ k \in 1..Len(tasks)
    /\ tasks[k].st = "pending"
    /\ \A j \in 1..(k - 1) : tasks[j].st # "pending"
    /\ tasks' = [tasks EXCEPT ![k] = [st |-> "called",
                                      attempts |-> tasks[k].attempts + 1,
                                      res |-> NoResult]]
    /\ log' = log \cup {"text"}
    /\ UNCHANGED <<store, uuids, pc, goals, gi, templates, generated_memes,
                   uuid_memes, image_tasks, results, response>>
    /\ UNCHANGED <<rateVars, auxVars>>

\* what gather(return_exceptions=True) stores for a task that raised
TaskFailed(task) == [st |-> "fail", attempts |-> task.attempts, res |-> NoResult]

\* variant: each coroutine is awaited where it is created
LaunchedOneByOne(ts) == TRUE

\* asyncio.gather over the list of coroutines: every sibling has run up to
\* its provider call before the event loop resumes any of them
Launched(ts) == \A j \in 1..Len(ts) : ts[j].st # "pending"

\* generate_meme_texts returns the parsed dict or raises; completion order
\* of the siblings is free
FinishText(k) ==
    /\ pc = "TEXT"
    /\ k \in 1..Len(tasks)
    /\ tasks[k].st = "called"
    /\ Launched(tasks)
    /\ \/ tasks' = [tasks EXCEPT ![k] = TaskFailed(tasks[k])]
       \/ \E tv \in TextVariations :
             tasks' = [tasks EXCEPT ![k] = [st |-> "ok",
                                           attempts |-> tasks[k].attempts,
                                           res |-> tv]]
    /\ UNCHANGED <<store, uuids, pc, goals, gi, templates, generated_memes,
                   uuid_memes, image_tasks, results, response, log>>
    /\ UNCHANGED <<rateVars, auxVars>>

AllTextDone == \A k \in 1..Len(tasks) : tasks[k].st \in {"ok", "fail"}

\* the rest of batch_generate_texts and the loop over template_results
FanInTexts ==
    /\ pc = "TEXT"
    /\ AllTextDone
    /\ LET prs == ProcessedResults(templates, tasks)
       IN  IF RaisesInFanIn(prs)
           THEN /\ Fail("TypeError", "text_choices")
                /\ UNCHANGED <<generated_memes, gi>>
           ELSE /\ generated_memes' = generated_memes \o FlattenMemes(prs)
                /\ gi' = gi + 1
                /\ pc' = "TEMPLATES"
                /\ response' = response
    /\ UNCHANGED <<store, uuids, goals, templates, tasks, uuid_memes,
                   image_tasks, results, log>>
    /\ UNCHANGED <<rateVars, auxVars>>

(* ------------------------- assignment of the slots ---------------------- *)
TemplateIds(memes) == {memes[i].template_id : i \in 1..Len(memes)}

\* image_tasks of batch_process_images: the slots whose template has a URL
RECURSIVE ImageTasksFrom(_, _, _)
ImageTasksFrom(memes, urls, i) ==
    IF i > Len(memes) THEN <<>>
    ELSE IF memes[i].template_id \in urls
         THEN <<i>> \o ImageTasksFrom(memes, urls, i + 1)
         ELSE ImageTasksFrom(memes, urls, i + 1)

ImageTasks(memes, urls) == ImageTasksFrom(memes, urls, 1)

\* variant: the emptiness check is missing
PoolEmptyUnchecked(pool) == FALSE

\* if not generated_memes
PoolEmpty(pool) == pool = <<>>

\* i % len(generated_memes) raises ZeroDivisionError on an empty pool
ModuloRaises(ids, pool) == ids # <<>> /\ Len(pool) = 0

\* from the empty-pool check to the gather of batch_process_images; the
\* template URL query is malformed (IN ()) when there is no slot
AssignSlots ==
    /\ pc = "TEMPLATES"
    /\ gi > Len(goals)
    /\ IF PoolEmpty(generated_memes)
       THEN /\ Fail("ValueError", "No memes were generated")
            /\ UNCHANGED <<uuid_memes, image_tasks, results>>
       ELSE IF ModuloRaises(uuids, generated_memes)
       THEN /\ Fail("ZeroDivisionError", "modulo")
            /\ UNCHANGED <<uuid_memes, image_tasks, results>>
       ELSE LET memes == MatchUuids(uuids, generated_memes)
            IN  /\ uuid_memes' = memes
                /\ \/ /\ Fail("DatabaseError", "template_urls")
                      /\ UNCHANGED <<image_tasks, results>>
                   \/ /\ memes # <<>>
                      /\ \E urls \in SUBSET TemplateIds(memes) :
                            /\ image_tasks' = ImageTasks(memes, urls)
                            /\ results' = [k \in 1..Len(ImageTasks(memes, urls)) |-> Pending]
                      /\ pc' = "RENDER_UPLOAD"
                      /\ response' = response
    /\ UNCHANGED <<store, uuids, goals, gi, templates, tasks, generated_memes, log>>
    /\ UNCHANGED <<rateVars, auxVars>>

(* ------------------------------ RENDER_UPLOAD --------------------------- *)
ImageOutcomes == {"render_error", "upload_failed", "uploaded"}

\* process_meme_image: every exception is turned into None; the URL is the
\* one upload_image builds from the slot's own uuid
ProcessMemeImage(meme, outcome) ==
    IF outcome = "uploaded" THEN CdnUrl(meme.uuid) ELSE None

\* the coroutine has no suspension point: the tasks run one after the other
\* in submission order
ProcessImage(k) ==
    /\ pc = "RENDER_UPLOAD"
    /\ k \in 1..Len(results)
    /\ results[k] = Pending
    /\ \A j \in 1..(k - 1) : results[j] # Pending
    /\ \E outcome \in ImageOutcomes :
          /\ results' = [results EXCEPT
                           ![k] = ProcessMemeImage(uuid_memes[image_tasks[k]], outcome)]
          /\ log' = log \cup (IF outcome = "render_error"
                               THEN {"render"} ELSE {"render", "upload"})
    /\ UNCHANGED <<store, uuids, pc, goals, gi, templates, tasks, generated_memes,
                   uuid_memes, image_tasks, response>>
    /\ UNCHANGED <<rateVars, auxVars>>

\* variant: the results are zipped with the slots, not with the submitted tasks
ZipResultsBySlot(memes, itasks, res) ==
    [i \in 1..Len(memes) |->
        IF i <= Len(res) THEN [memes[i] EXCEPT !.cdn_url = res[i]] ELSE memes[i]]

\* for (meme, _), result in zip(image_tasks, results): meme["cdn_url"] = result
ZipResults(memes, itasks, res) ==
    [i \in 1..Len(memes) |->
        IF \E k \in 1..Len(itasks) : itasks[k] = i
        THEN [memes[i] EXCEPT !.cdn_url = res[CHOOSE k \in 1..Len(itasks) : itasks[k] = i]]
        ELSE memes[i]]

\* variant: the fan-in goes on as soon as the first task is over
AllImagesDoneFirstOnly(res) == IF Len(res) = 0 THEN TRUE ELSE res[1] # Pending

\* results = await asyncio.gather(...): every task is over
AllImagesDone(res) == \A k \in 1..Len(res) : res[k] # Pending

FanInImages ==
    /\ pc = "RENDER_UPLOAD"
    /\ AllImagesDone(results)
    /\ uuid_memes' = ZipResults(uuid_memes, image_tasks, results)
    /\ pc' = "PERSIST"
    /\ UNCHANGED <<store, uuids, goals, gi, templates, tasks, generated_memes,
                   image_tasks, results, response, log>>
    /\ UNCHANGED <<rateVars, auxVars>>

(* --------------------------------- PERSIST ------------------------------ *)
\* the UPDATE loop, conn.commit() and the returned list; a database error
\* before the commit leaves the committed rows as they were
Persist ==
    /\ pc = "PERSIST"
    /\ log' = log \cup {"write"}
    /\ \/ /\ store' = ApplyUpdates(store, uuid_memes)
          /\ response' = OkResponse(uuid_memes)
          /\ pc' = "DONE"
       \/ /\ Fail("DatabaseError", "update")
          /\ \E n \in 1..(Len(uuid_memes) + 1) :
                store' = AfterFailedUpdate(store, uuid_memes, n)
    /\ UNCHANGED <<uuids, goals, gi, templates, tasks, generated_memes,
                   uuid_memes, image_tasks, results>>
    /\ UNCHANGED <<rateVars, auxVars>>

NextBatch ==
    \/ Validate
    \/ GenerateGoals
    \/ FindTemplates
    \/ \E k \in 1..TopK : StartText(k)
    \/ \E k \in 1..TopK : FinishText(k)
    \/ FanInTexts
    \/ AssignSlots
    \/ \E k \in 1..MaxUuids : ProcessImage(k)
    \/ FanInImages
    \/ Persist

Init == InitBatch
Next == NextBatch
Spec == Init /\ [][Next]_vars

\* every external call returns or fails, and the event loop runs every
\* coroutine that is ready: a step that can be taken is eventually taken
\* what a step of the request changes: the stage, the goal at hand, the
\* states of the text tasks and the image tasks still to finish
Progress == <<pc, gi, [k \in 1..Len(tasks) |-> tasks[k].st],
              {k \in 1..Len(results) : results[k] = Pending}>>
Fairness == WF_Progress(Next)
SpecLive == Init /\ [][Next]_vars /\ Fairness

(* ============================== properties ============================== *)
StoreUntouched == \A id \in Ids : store[id] \in {NoRow, InitialRow}

SomeUuidMissing == \E i \in 1..Len(uuids) : store[uuids[i]] = NoRow

C2_OneEntryPerUuid ==
    response.kind = "ok" =>
        /\ pc = "DONE"
        /\ Len(response.memes) = Len(uuids)
        /\ \A i \in 1..Len(uuids) :
              /\ response.memes[i].uuid = uuids[i]
              /\ DOMAIN response.memes[i].text_boxes = 1..NumBoxes
              /\ response.memes[i].text_boxes = uuid_memes[i].text_boxes
              /\ response.memes[i].cdn_url \in {None, CdnUrl(uuids[i])}

\* an answer in which one slot has no image and a later one has
C2_Witness ==
    /\ response.kind = "ok"
    /\ \E i, j \in 1..Len(response.memes) :
          /\ i < j
          /\ response.memes[i].cdn_url = None
          /\ response.memes[j].cdn_url # None

NewEntries(old, new) == SubSeq(new, Len(old) + 1, Len(new))

CountOf(seq, t) == Cardinality({i \in 1..Len(seq) : seq[i].template_id = t})

\* C3: at the fan-in of the text tasks of a goal, every task that returned
\* contributes exactly its own choices to the pool, a task that raised
\* contributes nothing, the request goes on, and no task was started more
\* than once.
C3_FanOutIsolation ==
    [][ /\ (pc = "TEXT" /\ pc' = "TEMPLATES") =>
              /\ Len(generated_memes') >= Len(generated_memes)
              /\ SubSeq(generated_memes', 1, Len(generated_memes)) = generated_memes
              /\ \A k \in 1..Len(tasks) :
                    CountOf(NewEntries(generated_memes, generated_memes'), templates[k])
                      = IF tasks[k].st = "ok" /\ tasks[k].res.has_choices
                        THEN Len(tasks[k].res.text_choices)
                        ELSE 0
        /\ \A k \in 1..Len(tasks') : tasks'[k].attempts <= 1
        /\ (pc = "TEXT" /\ pc' = "TEXT") =>
              \A k \in 1..Len(tasks) :
                 tasks[k].st \in {"ok", "fail"} => tasks'[k] = tasks[k]
      ]_vars

\* the first of two tasks raised, the second returned a choice afterwards,
\* and the pool ends with the second template's entry
C3_Witness ==
    /\ pc = "TEMPLATES"
    /\ Len(tasks) = 2
    /\ tasks[1].st = "fail"
    /\ tasks[2].st = "ok"
    /\ Len(tasks[2].res.text_choices) = 1
    /\ gi = 2
    /\ Len(generated_memes) = 1
    /\ generated_memes[1].template_id = templates[2]

SamePair(a, b) == a.template_id = b.template_id /\ a.text_boxes = b.text_boxes

\* C4: the slots follow the pool cyclically: the first len(pool) slots take
\* the pool entries in order and every later slot repeats the slot
\* len(pool) places before it (so with 3 variants slot 0 and slot 3 agree);
\* each slot keeps its own identifier.
C4_CyclicAssignment ==
    pc = "ASSIGN" =>
        \A i \in 1..Len(uuid_memes) :
            /\ uuid_memes[i].uuid = uuids[i]
            /\ i <= Len(generated_memes) => SamePair(uuid_memes[i], generated_memes[i])
            /\ i > Len(generated_memes) =>
                  SamePair(uuid_memes[i], uuid_memes[i - Len(generated_memes)])

\* 3 distinct variants assigned to 7 identifiers
C4_Witness ==
    /\ pc = "ASSIGN"
    /\ Len(generated_memes) = 3
    /\ Len(uuid_memes) = 7
    /\ ~SamePair(generated_memes[1], generated_memes[2])
    /\ SamePair(uuid_memes[1], uuid_memes[4])

TasksOfSlot(i) == {k \in 1..Len(image_tasks) : image_tasks[k] = i}

SlotsRecorded ==
    /\ Len(uuid_memes) = Len(uuids)
    /\ \A k \in 1..Len(results) : results[k] # Pending
    /\ \A i \in 1..Len(uuid_memes) :
          /\ TasksOfSlot(i) = {} => GetCdnUrl(uuid_memes[i]) = None
          /\ \A k \in TasksOfSlot(i) :
                /\ results[k] = None => GetCdnUrl(uuid_memes[i]) = None
                /\ results[k] # None => GetCdnUrl(uuid_memes[i]) = CdnUrl(uuids[i])

\* C5: the render/upload stage never fails the request; when it is over
\* every submitted task has run, the slots whose task gave no URL (and the
\* slots that had no task) hold a null image reference, and every other
\* slot holds the URL of its own upload.
C5_RenderUploadIsolation ==
    [][ /\ pc = "RENDER_UPLOAD" => pc' \in {"RENDER_UPLOAD", "PERSIST"}
        /\ pc' = "PERSIST" => SlotsRecorded'
      ]_vars

\* a slot whose task failed, followed by a slot that was uploaded
C5_Witness ==
    /\ pc = "PERSIST"
    /\ \E k, l \in 1..Len(results) :
          /\ k < l
          /\ results[k] = None
          /\ results[l] # None
          /\ uuid_memes[image_tasks[l]].cdn_url = CdnUrl(uuids[image_tasks[l]])
          /\ uuid_memes[image_tasks[k]].cdn_url = None

\* C6: after PERSIST the row of every slot holds the slot's template id and
\* captions; it holds the slot's image reference when there is one and its
\* previously stored reference when there is none.
C6_AllSlotsPersisted ==
    pc = "DONE" =>
        \A i \in 1..Len(uuid_memes) :
            LET row == store[uuid_memes[i].uuid]
            IN  /\ uuid_memes[i].uuid = uuids[i]
                /\ row # NoRow
                /\ row.template_id = uuid_memes[i].template_id
                /\ row.text_boxes = uuid_memes[i].text_boxes
                /\ GetCdnUrl(uuid_memes[i]) # None =>
                      row.meme_cdn_url = GetCdnUrl(uuid_memes[i])
                /\ GetCdnUrl(uuid_memes[i]) = None =>
                      row.meme_cdn_url = InitialRow.meme_cdn_url

\* a persisted slot without image next to one with an image
C6_Witness ==
    /\ pc = "DONE"
    /\ \E i, j \in 1..Len(uuid_memes) :
          /\ GetCdnUrl(uuid_memes[i]) = None
          /\ store[uuid_memes[i].uuid].template_id = uuid_memes[i].template_id
          /\ store[uuid_memes[i].uuid].template_id # InitialRow.template_id
          /\ GetCdnUrl(uuid_memes[j]) # None

PoolEmptyAfterFanIn ==
    /\ gi > Len(goals)
    /\ "goals" \in log
    /\ generated_memes = <<>>

\* C7: when the pool is empty after the last goal was handled, the request
\* fails with "No memes were generated" and nothing is rendered, uploaded
\* or written.
C7_EmptyPoolFails ==
    PoolEmptyAfterFanIn =>
        /\ pc \in {"TEMPLATES", "FAILED"}
        /\ pc = "FAILED" =>
              /\ response.kind = "error"
              /\ response.detail = "No memes were generated"
        /\ log \cap {"render", "upload", "write"} = {}
        /\ uuid_memes = <<>>
        /\ StoreUntouched

\* the request failed on an empty pool although a text task had returned
C7_Witness ==
    /\ PoolEmptyAfterFanIn
    /\ pc = "FAILED"
    /\ "text" \in log
    /\ \E k \in 1..Len(tasks) : tasks[k].st = "ok"

\* C8: once goal generation has failed the request has failed, and no
\* template lookup, text generation, render, upload or store write was
\* performed.
C8_GoalFailureFatal ==
    "goals_failed" \in log =>
        /\ pc = "FAILED"
        /\ response.kind = "error"
        /\ log = {"goals", "goals_failed"}
        /\ generated_memes = <<>>
        /\ uuid_memes = <<>>
        /\ StoreUntouched

\* goal generation failed for a valid, non-empty request
C8_Witness ==
    /\ "goals_failed" \in log
    /\ pc = "FAILED"
    /\ uuids # <<>>
    /\ response.detail = "no_goal_list"

\* C9: after validation and goal generation have succeeded, the only
\* failure of the whole request is the empty pool.
C9_OnlyEmptyPoolFailsLater ==
    (pc = "FAILED" /\ "goals" \in log /\ "goals_failed" \notin log) =>
        response.detail = "No memes were generated"

Sleeps(c) == callers[c].pc = "idle" /\ callers'[c].pc = "sleeping"
Proceeds(c) == callers[c].pc = "idle" /\ callers'[c].pc = "calling"
Gated(c) == Sleeps(c) \/ Proceeds(c)

\* C10: at the gate, without a snapshot or without an exhausted dimension
\* the caller is not suspended; otherwise it is suspended for a time that is
\* not negative, not less than (reset - now) of any exhausted dimension, and
\* either 0 or exactly (reset - now) of one of them; the call is not sent
\* before that time has elapsed.
C10_RateGate ==
    [][ \A c \in Callers :
          /\ Gated(c) =>
                /\ callers'[c].gate_time = now
                /\ callers'[c].wait >= 0
                /\ IF rate_info = NoInfo
                   THEN Proceeds(c) /\ callers'[c].wait = 0
                   ELSE LET ex == {d \in Dimensions : rate_info.remaining[d] <= 0}
                        IN  /\ ex = {} => (Proceeds(c) /\ callers'[c].wait = 0)
                            /\ ex # {} =>
                                  /\ Sleeps(c)
                                  /\ \A d \in ex :
                                        callers'[c].wait >= rate_info.reset[d] - now
                                  /\ \/ callers'[c].wait = 0
                                     \/ \E d \in ex :
                                           callers'[c].wait = rate_info.reset[d] - now
          /\ (callers[c].pc = "sleeping" /\ callers'[c].pc = "calling") =>
                now >= callers[c].gate_time + callers[c].wait
      ]_vars

\* requests exhausted with the reset ResetAhead seconds ahead and quota left
\* in the other dimensions: the caller sleeps exactly that long
C10_Witness ==
    \E c \in Callers :
        /\ callers[c].pc = "sleeping"
        /\ rate_info # NoInfo
        /\ rate_info.remaining["requests"] = 0
        /\ \A d \in Dimensions \ {"requests"} : rate_info.remaining[d] = 100
        /\ rate_info.reset["requests"] = callers[c].gate_time + ResetAhead
        /\ callers[c].wait = ResetAhead

(* ------------------------- rate limiter: records ------------------------ *)
Records(c) == callers[c].pc = "calling" /\ callers'[c].pc = "returned"

\* C11: the shared snapshot changes only when a caller records a successful
\* response, and is then the snapshot built from the headers of that one
\* response alone: every count, every reset and the capture time come from
\* it, whatever the snapshot was before and however the callers interleave.
C11_LastWriterWins ==
    [][ /\ (rate_info' # rate_info) => \E c \in Callers : Records(c)
        /\ \A c \in Callers :
              Records(c) =>
                 /\ rate_info'.timestamp = now
                 /\ \A d \in Dimensions :
                       /\ rate_info'.remaining[d] = ParseRemaining(headers'[d].remaining)
                       /\ rate_info'.reset[d] = ParseDate(headers'[d].reset, now)
      ]_vars

\* every caller has recorded a response and the snapshot is the one of a
\* response that came after the first: the first snapshot was overwritten
C11_Witness ==
    /\ \A c \in Callers : callers[c].pc = "returned"
    /\ rate_info # NoInfo
    /\ rate_info.timestamp > 0
    /\ \E d \in Dimensions : headers[d].reset.kind = "absent"

\* C12: a request never makes more than one provider call attempt; a caller
\* whose call was sent leaves make_anthropic_request at the first outcome of
\* that call, with exactly one attempt made, and a failed call ends in the
\* exception being raised to the caller.
C12_NoRetry ==
    [][ \A c \in Callers :
          /\ callers'[c].attempts <= 1
          /\ (callers[c].pc = "calling" /\ callers'[c] # callers[c]) =>
                /\ callers'[c].pc \in {"returned", "raised", "raised_recording"}
                /\ callers'[c].attempts = 1
      ]_vars

\* one caller's call failed after another caller's response was recorded
C12_Witness ==
    \E c \in Callers :
        /\ callers[c].pc = "raised"
        /\ callers[c].attempts = 1
        /\ \E x \in Callers \ {c} : callers[x].pc = "returned"

\* C13: no caller leaves make_anthropic_request with an exception raised by
\* the gate check or by the recording of the response headers.
C13_GovernorNeverRaises ==
    \A c \in Callers : callers[c].pc \notin {"raised_gate", "raised_recording"}

\* C14: when a snapshot is recorded, each dimension whose reset header is
\* absent or unparseable gets capture time + 60 seconds as its reset,
\* whatever the headers of the other dimensions are.
C14_DefaultReset ==
    [][ \A c \in Callers :
          Records(c) =>
             \A d \in Dimensions :
                headers'[d].reset.kind \in {"absent", "garbage"} =>
                   rate_info'.reset[d] = now + 60
      ]_vars

\* the recorded response has an unparseable reset in one dimension and a
\* timestamp in another: the first is defaulted, the second is kept
C14_Witness ==
    /\ rate_info # NoInfo
    /\ headers # NoHeaders
    /\ \E d, e \in Dimensions :
          /\ headers[d].reset.kind = "garbage"
          /\ rate_info.reset[d] = rate_info.timestamp + 60
          /\ headers[e].reset.kind = "value"
          /\ rate_info.reset[e] = rate_info.timestamp + ResetAhead

\* C15: every reset of the recorded snapshot is at or after its capture time.
C15_ResetNotBeforeCapture ==
    rate_info # NoInfo =>
        \A d \in Dimensions : rate_info.reset[d] >= rate_info.timestamp

(* --------------------------- parse, else repair ------------------------- *)
RepairDone == repair.pc \in {"RETURNED", "RAISED"}

\* C16: a direct parse comes first and, when it succeeds, no repair request
\* is made; when it fails exactly one repair request is made, the repaired
\* text is validated again, is what the caller gets when valid, and makes
\* the call fail with ValueError when still invalid; there is never a
\* second repair request.
C16_SingleRepair ==
    repair.pc # "NONE" =>
        /\ repair.repair_requests <= 1
        /\ (repair.pc = "PARSE") => repair.repair_requests = 0
        /\ (RepairDone /\ repair.content \in {"object", "array"}) =>
               repair.repair_requests = 0
        /\ (RepairDone /\ repair.content \in {"fenced", "truncated"}) =>
               repair.repair_requests = 1
        /\ (repair.pc = "RETURNED" /\ repair.repair_requests = 1) =>
               /\ repair.fixed_json = "object"
               /\ repair.value = repair.fixed_json
        /\ (RepairDone /\ repair.fixed_json \in {"fenced", "truncated"}) =>
               /\ repair.pc = "RAISED"
               /\ repair.exc = "ValueError"

\* the answer did not parse, one repair was requested, and the repaired text
\* did not parse either
C16_Witness ==
    /\ repair.pc = "RAISED"
    /\ repair.exc = "ValueError"
    /\ repair.content = "fenced"
    /\ repair.fixed_json = "truncated"
    /\ repair.repair_requests = 1

\* C17: a failed repair during goal generation is never what the request
\* fails with: an empty goal list is used in its place.
C17_RepairFailureSubstituted ==
    response.kind = "error" => response.detail # "repair_failed"

(* ----------------- box geometry and caption normalisation --------------- *)
\* C18: whichever way the column encodes an array of boxes, what text
\* generation is given and what rendering works on is that array.
C18_EncodingsAgree ==
    norm.pc = "DONE" =>
        /\ norm.for_text = [raised |-> FALSE, value |-> norm.boxes]
        /\ norm.for_render = [raised |-> FALSE, value |-> norm.boxes]

WithoutId(box) == box = <<"dict", "absent", "absent", TRUE>>
WithId(box) == box \in {<<"dict", "1", "absent", TRUE>>, <<"dict", "2", "absent", TRUE>>}
CountBoxes(b, P(_)) == Cardinality({k \in 1..Len(b[2]) : P(b[2][k])})

\* C19: when rendering works on the array of boxes itself, a box without an
\* id contributes no caption/geometry pair, and with a box that has an id
\* beside it the render does not fail.
C19_BoxWithoutIdDropped ==
    (norm.pc = "DONE" /\ norm.for_render = [raised |-> FALSE, value |-> norm.boxes]) =>
        /\ Len(norm.pairs) <= Len(norm.boxes[2]) - CountBoxes(norm.boxes, WithoutId)
        /\ (CountBoxes(norm.boxes, WithoutId) > 0 /\ CountBoxes(norm.boxes, WithId) > 0) =>
               norm.outcome = "rendered"

\* C20: text_boxes has 7 slots; slot i holds the value under text{i}, else
\* the value under text_{i}, else null; no other key of the choice has any
\* effect.
C20_CaptionKeys ==
    norm.pc \in {"RENDER", "DONE"} =>
        /\ Len(norm.text_boxes) = 7
        /\ \A i \in 1..7 :
              LET plain == <<"text1", "text2", "text3", "text4", "text5", "text6", "text7">>[i]
                  under == <<"text_1", "text_2", "text_3", "text_4", "text_5", "text_6", "text_7">>[i]
              IN  norm.text_boxes[i] =
                     IF plain \in DOMAIN norm.choice THEN norm.choice[plain]
                     ELSE IF under \in DOMAIN norm.choice THEN norm.choice[under]
                     ELSE NoText

\* a choice with text_3, text7 and a key outside 1..7: slots 3 and 7 are
\* filled, the others are null
C20_Witness ==
    /\ norm.pc = "DONE"
    /\ DOMAIN norm.choice = {"text_3", "text7", "text0"}
    /\ norm.text_boxes = <<NoText, NoText, "c", NoText, NoText, NoText, "d">>

(* ------------------------- fan-out and stage order ---------------------- *)
PositionIn(seq, x) == CHOOSE k \in 1..Len(seq) : seq[k] = x

\* C27: no text task of a goal is resumed before all its siblings were
\* launched; whatever order they finish in, the entries a goal adds to the
\* pool follow the order in which the templates were submitted and each
\* holds a choice of its own task; a finished render result does not change
\* and at the fan-in the k-th result is attached to the slot the k-th task
\* was submitted for.
C27_SubmissionOrder ==
    [][ /\ \A k \in 1..Len(tasks) :
              (pc = "TEXT" /\ pc' = "TEXT" /\ tasks[k].st = "called"
                 /\ tasks'[k].st \in {"ok", "fail"}) =>
                    \A j \in 1..Len(tasks) : tasks[j].st \in {"called", "ok", "fail"}
        /\ (pc = "TEXT" /\ pc' = "TEMPLATES") =>
              LET added == NewEntries(generated_memes, generated_memes')
              IN  /\ \A a \in 1..Len(added) :
                        /\ added[a].template_id \in Range(templates)
                        /\ LET task == tasks[PositionIn(templates, added[a].template_id)]
                           IN  /\ task.st = "ok"
                               /\ \E c \in 1..Len(task.res.text_choices) :
                                     added[a].text_boxes = TextBoxes(task.res.text_choices[c])
                  /\ \A a, b \in 1..Len(added) :
                        a < b => PositionIn(templates, added[a].template_id)
                                    <= PositionIn(templates, added[b].template_id)
        /\ (pc = "RENDER_UPLOAD" /\ pc' = "RENDER_UPLOAD") =>
              \A k \in 1..Len(results) : results[k] # Pending => results'[k] = results[k]
        /\ (pc = "RENDER_UPLOAD" /\ pc' = "PERSIST") =>
              \A k \in 1..Len(results) :
                 /\ results[k] # Pending
                 /\ uuid_memes'[image_tasks[k]].cdn_url = results[k]
                 /\ uuid_memes'[image_tasks[k]].uuid = uuids[image_tasks[k]]
      ]_vars

\* the second of two launched text tasks is over while the first is still
\* waiting for its answer
C27_Witness ==
    /\ pc = "TEXT"
    /\ Len(tasks) = 2
    /\ tasks[1].st = "called"
    /\ tasks[2].st = "ok"
    /\ tasks[2].res.has_choices

\* the stages as the orchestrator's loop visits them: the template lookup and
\* the text fan-out of one goal are done before the template lookup of the
\* next goal, so the two alternate goal by goal and count as one stage
StageRank(stage) ==
    CASE stage = "VALIDATING" -> 1
      [] stage = "GOALS" -> 2
      [] stage \in {"TEMPLATES", "TEXT"} -> 3
      [] stage = "RENDER_UPLOAD" -> 4
      [] stage = "PERSIST" -> 5
      [] stage = "DONE" -> 6
      [] stage = "FAILED" -> 7

\* the stages in the order VALIDATING, GOALS, TEMPLATES, TEXT, RENDER_UPLOAD,
\* PERSIST, DONE, each one a stage of its own
StageRankEach(stage) ==
    CASE stage = "TEXT" -> 4
      [] stage \in {"RENDER_UPLOAD", "PERSIST", "DONE", "FAILED"} -> StageRank(stage) + 1
      [] OTHER -> StageRank(stage)

\* the stage the request is in; once the text of the last goal is gathered
\* no template lookup follows, the pool is checked and the slots are assigned
Stage == IF pc = "TEMPLATES" /\ gi > Len(goals) THEN "TEXT" ELSE pc

StageOrder(rank(_)) ==
    /\ rank(Stage') >= rank(Stage)
    /\ ("goals" \in log' /\ "goals" \notin log) => pc = "GOALS"
    /\ ("render" \in log' /\ "render" \notin log) =>
          /\ pc = "RENDER_UPLOAD"
          /\ gi > Len(goals)
          /\ \A k \in 1..Len(tasks) : tasks[k].st \in {"ok", "fail"}
    /\ pc \in {"RENDER_UPLOAD", "PERSIST", "DONE"} =>
          generated_memes' = generated_memes
    /\ (pc = "RENDER_UPLOAD" /\ pc' = "PERSIST") =>
          \A k \in 1..Len(results) : results[k] # Pending
    /\ ("write" \in log' /\ "write" \notin log) => pc = "PERSIST"
    /\ store' # store => (pc = "PERSIST" /\ pc' = "DONE")

\* C30 (as amended): validation is over before goal generation starts; the
\* template lookup and the text fan-out alternate goal by goal; no render or
\* upload starts before the text of every goal is gathered, and the pool does
\* not change from then on; the store is written only once every
\* render/upload task is over; VALIDATING, GOALS, the TEMPLATES/TEXT loop,
\* RENDER_UPLOAD, PERSIST and DONE are never re-entered once a later one of
\* them has begun.
C30_StageOrder == [][StageOrder(StageRank)]_vars

\* C30 (as stated): the same with TEMPLATES and TEXT as two stages, neither
\* re-entered once a later stage has begun
C30_StageOrderAsStated == [][StageOrder(StageRankEach)]_vars

\* a request with two goals and two slots that went through every stage, the
\* templates of the second goal looked up after the text of the first
C30_Witness ==
    /\ pc = "DONE"
    /\ gi > 2
    /\ Len(goals) = 2
    /\ Len(results) = 2
    /\ {"goals", "templates", "text", "render", "upload", "write"} \subseteq log

(* ------------------------ text overlay (compositor) --------------------- *)
OverlayDone == overlay.pc \in {"returned", "raised"}

\* C21: add_text_at_coordinates raises ValueError when the captions and the
\* boxes differ in number and when either list is empty, and nothing has been
\* drawn on the image when it does.
C21_ValidationBeforeDrawing ==
    (/\ OverlayDone
     /\ \/ Len(overlay.texts) # Len(overlay.coordinates)
        \/ Len(overlay.texts) = 0
        \/ Len(overlay.coordinates) = 0)
    => /\ overlay.pc = "raised"
       /\ overlay.error = "ValueError"
       /\ overlay.ops = <<>>

\* two captions for one box, the first of which could have been drawn
C21_Witness ==
    /\ overlay.pc = "raised"
    /\ Len(overlay.texts) = 2
    /\ Len(overlay.coordinates) = 1
    /\ Len(overlay.texts[1].words) > 0
    /\ overlay.coordinates[1].complete
    /\ overlay.ops = <<>>

BoxWidthPx(i) == ToPixels(overlay.coordinates[i].width, overlay.image[1])
BoxHeightPx(i) == ToPixels(overlay.coordinates[i].height, overlay.image[2])

\* the caption wrapped at this size is, with 20% of a line between the lines
\* and 20% on top of the whole, at most as high as the box (times 25)
HeightFits(text, box_width, box_height, font_size) ==
    LET n == Len(WrapText(text, box_width, font_size))
    IN  6 * (5 * n * font_size + (n - 1) * font_size) <= 25 * box_height

\* C22: when the size search found a size for a caption, that size lies in
\* 10..200, the wrapped caption fits the box height at it, and it fits at no
\* larger size of the range.
C22_LargestFittingSize ==
    (OverlayDone /\ overlay.font_path) =>
       \A i \in 1..Len(overlay.fits) :
          (overlay.fits[i] # Skipped /\ ~overlay.fits[i].fallback) =>
             LET size == overlay.fits[i].size
                 text == overlay.texts[i]
             IN  /\ size \in MIN_FONT_SIZE..MAX_FONT_SIZE
                 /\ HeightFits(text, BoxWidthPx(i), BoxHeightPx(i), size)
                 /\ \A larger \in (size + 1)..MAX_FONT_SIZE :
                       ~HeightFits(text, BoxWidthPx(i), BoxHeightPx(i), larger)
                 /\ overlay.fits[i].text_lines = WrapText(text, BoxWidthPx(i), size)

\* a caption that was wrapped into two lines at a size inside the range
C22_Witness ==
    /\ overlay.pc = "returned"
    /\ overlay.font_path
    /\ \E i \in 1..Len(overlay.fits) :
          /\ ~overlay.fits[i].fallback
          /\ Len(overlay.fits[i].text_lines) = 2
          /\ overlay.fits[i].size > MIN_FONT_SIZE
          /\ overlay.fits[i].size < MAX_FONT_SIZE

\* C23: with well-formed lists and complete boxes, the render of every
\* non-empty caption completes: add_text_at_coordinates returns.
C23_RenderNeverFails ==
    (/\ OverlayDone
     /\ ~InputsInvalid(overlay.texts, overlay.coordinates)
     /\ \A i \in 1..Len(overlay.coordinates) : overlay.coordinates[i].complete)
    => overlay.pc = "returned"

IsProperPrefix(s, t) == Len(s) < Len(t) /\ SubSeq(t, 1, Len(s)) = s

\* C24: of two captions rendered in boxes of the same size, the second being
\* the first extended with more words, the second never gets the strictly
\* larger font size.
C24_FontFitMonotone ==
    (/\ overlay.pc = "returned"
     /\ Len(overlay.fits) = 2
     /\ overlay.fits[1] # Skipped
     /\ overlay.fits[2] # Skipped
     /\ BoxWidthPx(1) = BoxWidthPx(2)
     /\ BoxHeightPx(1) = BoxHeightPx(2)
     /\ IsProperPrefix(overlay.texts[1].words, overlay.texts[2].words))
    => overlay.fits[2].size <= overlay.fits[1].size

IsFill(op) == op.op = "text" /\ op.fill = "white"
IsStroke(op) == op.op = "text" /\ op.fill = "black"

Compass ==
    {<<m * dx, m * dy>> : m \in 1..OutlineReach,
                          dx \in {-1, 0, 1}, dy \in {-1, 0, 1}} \ {<<0, 0>>}

\* the fills the rendered boxes call for: left-aligned at the box's x, the
\* first at the box's y, each next one a line and a fifth further down
RECURSIVE ExpectedFills(_)
ExpectedFills(i) ==
    IF i > Len(overlay.fits) THEN <<>>
    ELSE LET fit == overlay.fits[i]
             coord == overlay.coordinates[i]
         IN  [k \in 1..Len(fit.text_lines) |->
                 <<ToPixels(coord.x, overlay.image[1]),
                   5 * ToPixels(coord.y, overlay.image[2]) + (k - 1) * 6 * fit.size,
                   fit.text_lines[k]>>]
             \o ExpectedFills(i + 1)

FillsDrawn ==
    LET fills == SelectSeq(overlay.ops, IsFill)
    IN  [k \in 1..Len(fills) |-> <<fills[k].x, fills[k].y5, fills[k].line>>]

\* the positions of the strokes drawn directly before position j
StrokesBefore(ops, j) ==
    LET others == {m \in 1..(j - 1) : ~IsStroke(ops[m])}
    IN  IF others = {} THEN 1..(j - 1) ELSE (MaxOf(others) + 1)..(j - 1)

\* C25: every white fill is directly preceded by black strokes of the same
\* line at offsets of at most 3px that cover the eight compass directions at
\* 1, 2 and 3px; every black stroke is followed by a stroke or by the fill,
\* so none is drawn after the fill of its line; the fills are left-aligned at
\* the box's x, start at the box's y and advance by the line height plus the
\* spacing.
C25_OutlineThenFill ==
    OverlayDone =>
       LET ops == overlay.ops
       IN  /\ \A j \in 1..Len(ops) :
                 IsFill(ops[j]) =>
                    LET group == StrokesBefore(ops, j)
                    IN  /\ \A b \in group :
                              /\ ops[b].line = ops[j].line
                              /\ ops[b].x - ops[j].x \in -OutlineReach..OutlineReach
                              /\ ops[b].y5 - ops[j].y5
                                    \in {5 * d : d \in -OutlineReach..OutlineReach}
                        /\ \A c \in Compass :
                              \E b \in group :
                                 /\ ops[b].x = ops[j].x + c[1]
                                 /\ ops[b].y5 = ops[j].y5 + 5 * c[2]
           /\ \A b \in 1..Len(ops) :
                 IsStroke(ops[b]) =>
                    /\ b < Len(ops)
                    /\ IsStroke(ops[b + 1]) \/ IsFill(ops[b + 1])
           /\ FillsDrawn = ExpectedFills(1)

\* a caption drawn in two lines: two fills, the second lower than the first
C25_Witness ==
    /\ overlay.pc = "returned"
    /\ \E j, k \in 1..Len(overlay.ops) :
          /\ j < k
          /\ IsFill(overlay.ops[j])
          /\ IsFill(overlay.ops[k])
          /\ overlay.ops[k].x = overlay.ops[j].x
          /\ overlay.ops[k].y5 > overlay.ops[j].y5
          /\ \A m \in (j + 1)..(k - 1) : IsStroke(overlay.ops[m])

(* -------------------- render/upload tasks and the store ----------------- *)
JobDone(k) == image_jobs.jobs[k].st = "done"

\* C26: an upload makes at most 3 attempts; a URL is the result of the last
\* attempt made and nothing is tried after it; before the attempt numbered a
\* (from 0) the task has slept delay * 2^0, ..., delay * 2^(a-1), so 1s and
\* then 2s, and no sleep follows the last attempt; after three failed
\* attempts the result is None and the task has ended without raising.
C26_UploadRetry ==
    \A k \in 1..NumJobs :
       LET job == image_jobs.jobs[k]
       IN  image_jobs.pc # "NONE" =>
             /\ job.attempts <= 3
             /\ Len(job.slept) <= 2
             /\ \A a \in 1..Len(job.slept) : job.slept[a] = (IF a = 1 THEN 1 ELSE 2)
             /\ job.st = "uploading" => Len(job.slept) = job.attempts - 1
             /\ job.st = "backoff" => Len(job.slept) = job.attempts
             /\ (job.st = "done" /\ job.attempts > 0) =>
                    /\ Len(job.slept) = job.attempts - 1
                    /\ job.result = None => job.attempts = 3
                    /\ job.result # None => job.result = CdnUrl(k)
             /\ (job.st = "done" /\ job.attempts = 0) => job.result = None

\* three failed attempts, 1s and 2s slept between them, the result None
C26_Witness ==
    \E k \in 1..NumJobs :
       /\ JobDone(k)
       /\ image_jobs.jobs[k].attempts = 3
       /\ image_jobs.jobs[k].slept = <<1, 2>>
       /\ image_jobs.jobs[k].result = None

Blocked(k) == image_jobs.jobs[k].st \in {"querying", "uploading", "backoff"}

\* C28: while a task is blocked on its store query, its upload or its
\* backoff sleep, a sibling that has not started yet can be started.
C28_SiblingsProgress ==
    \A k, j \in 1..NumJobs :
       (/\ image_jobs.pc = "gather"
        /\ Blocked(k)
        /\ j # k
        /\ image_jobs.jobs[j].st = "pending")
       => ENABLED StartJob(j)

\* C29: a task that has ended has no connection open.
C29_ConnectionReleased ==
    image_jobs.pc # "NONE" =>
       /\ image_jobs.examples.st = "done" => image_jobs.examples.conn # "open"
       /\ \A k \in 1..NumJobs : JobDone(k) => image_jobs.jobs[k].conn # "open"

\* C31: when the examples lookup failed or found nothing, the text task has
\* gone on to its provider call with a prompt without examples, and if it
\* failed it was not because of the lookup.
C31_LookupBestEffort ==
    (/\ image_jobs.pc # "NONE"
     /\ image_jobs.examples.st = "done"
     /\ ~HasExamplesSection(image_jobs.examples.result))
    => /\ image_jobs.text.st \in {"called", "ok", "fail"}
       /\ ~image_jobs.text.examples_section
       /\ image_jobs.text.st = "fail" => image_jobs.text.cause \in {"provider", "parse"}

\* the lookup raised after connecting and the text was generated all the same
C31_Witness ==
    /\ image_jobs.pc # "NONE"
    /\ image_jobs.examples.st = "done"
    /\ image_jobs.examples.result = None
    /\ image_jobs.examples.conn = "open"
    /\ image_jobs.text.st = "ok"

(* --------------------- render inputs of the compositor ------------------ *)
\* the descriptor names neither width nor height / no height
LacksWidth(box) ==
    \/ box = DictBox("absent", "absent", TRUE)
    \/ Tag(box) = "dict" /\ Len(box) = 5
LacksHeight(box) ==
    \/ LacksWidth(box)
    \/ IsList(box) /\ Len(box[2]) = 5

\* C32: every caption/geometry pair handed to the compositor stands for an
\* id in 1..7; a descriptor whose id is an integer outside 1..7 contributes
\* no pair; a descriptor without an id-like field is paired with the caption
\* of its own 1-based position; and a pair whose descriptor names no width
\* has width 20, one whose descriptor names no height has height 10.
C32_BoxIds ==
    (norm.pc = "DONE" /\ ~norm.for_render.raised) =>
       LET els == Elements(norm.for_render.value)
       IN  \A k \in 1..Len(norm.pairs) :
              LET pair == norm.pairs[k]
                  box == els[pair.pos + 1]
              IN  /\ pair.index + 1 \in 1..NumBoxes
                  /\ BoxId(box) \in IntTexts => IntOf(BoxId(box)) = pair.index + 1
                  /\ BoxId(box) = "absent" => pair.index = pair.pos
                  /\ LacksWidth(box) => pair.width = DefaultBoxWidth
                  /\ LacksHeight(box) => pair.height = DefaultBoxHeight

(* --------------------- the shared snapshot and the gate ----------------- *)
\* C33: the snapshot changes only in a step in which a caller that was
\* calling the provider receives its response, and it becomes the snapshot
\* built from that response's headers; a step in which a provider call
\* raises leaves the snapshot as it was, and so does every step of a caller
\* that consults the gate or sleeps.
C33_SnapshotOnlyByResponses ==
    [][/\ rate_info' # rate_info =>
             \E c \in Callers :
                /\ callers[c].pc = "calling"
                /\ callers'[c].pc \in {"returned", "raised_parsing"}
                /\ rate_info' = FromHeaders(headers', now)
       /\ \A c \in Callers :
             (callers[c].pc = "calling"
                /\ callers'[c].pc \in {"raised", "raised_recording"})
             => rate_info' = rate_info
       /\ \A c \in Callers :
             (callers[c].pc \in {"idle", "sleeping"} /\ callers'[c] # callers[c])
             => rate_info' = rate_info]_vars
C33_Witness ==
    /\ rate_info # NoInfo
    /\ rate_info.timestamp = 0
    /\ now > 0
    /\ \E c \in Callers : callers[c].pc = "raised"

(* ------------------------------ wrapping -------------------------------- *)
RECURSIVE Flatten(_)
Flatten(lines) ==
    IF lines = <<>> THEN <<>> ELSE Head(lines) \o Flatten(Tail(lines))

LineFits(line, max_width, font_size) ==
    TextWidth2(line, font_size) <= 2 * max_width

\* C34: wrapping a caption that is not empty loses and reorders nothing: the
\* lines, read one after the other, are the words of the caption in their
\* order; no line is empty; a line of several words fits the width; a word
\* opens a new line only when it would not have fitted at the end of the
\* line before it; so a word wider than the box stands alone on a line.
C34_WrapKeepsWords ==
    (overlay.pc = "WRAPPED" /\ overlay.text.chars > 0) =>
       LET lines == overlay.lines
           w == overlay.max_width
           fs == overlay.font_size
       IN  /\ Flatten(lines) = overlay.text.words
           /\ \A k \in 1..Len(lines) :
                 /\ lines[k] # <<>>
                 /\ Len(lines[k]) > 1 => LineFits(lines[k], w, fs)
                 /\ k > 1 => ~LineFits(Append(lines[k - 1], lines[k][1]), w, fs)
                 /\ \A j \in 1..Len(lines[k]) :
                       ~LineFits(<<lines[k][j]>>, w, fs) => Len(lines[k]) = 1
\* a line of two words followed by a word wider than the box
C34_Witness ==
    /\ overlay.pc = "WRAPPED"
    /\ Len(overlay.lines) = 2
    /\ Len(overlay.lines[1]) = 2
    /\ ~LineFits(overlay.lines[2], overlay.max_width, overlay.font_size)

(* ------------------------- the store and the commit --------------------- *)
\* C35: the rows of the store change only in the step that ends PERSIST in
\* DONE, and then all at once to the rows the updates of every slot give; a
\* step that fails the request, at PERSIST or at any stage before it, leaves
\* every row as it was.
C35_StoreWrittenAtCommit ==
    [][/\ store' # store =>
             /\ pc = "PERSIST"
             /\ pc' = "DONE"
             /\ store' = ApplyUpdates(store, uuid_memes)
       /\ pc' = "FAILED" => store' = store]_vars
\* a request that failed in PERSIST with a rendered slot to write, and
\* whose rows are all as they were
C35_Witness ==
    /\ pc = "FAILED"
    /\ "write" \in log
    /\ Len(uuid_memes) >= 2
    /\ \E k \in 1..Len(uuid_memes) : GetCdnUrl(uuid_memes[k]) # None
    /\ StoreUntouched

(* ------------------------- repeated identifiers ------------------------- *)
\* C36: a request whose list repeats an identifier goes no further than
\* validation and is refused there, even when every identifier is stored;
\* from RENDER_UPLOAD on the slots carry pairwise different identifiers, so
\* no two slots address the same row, and no two submitted tasks the same
\* upload key.
C36_DuplicatesRejected ==
    /\ ~Injective(uuids) =>
          /\ pc \in {"VALIDATING", "FAILED"}
          /\ pc = "FAILED" => response.detail = "UUIDs not found in database"
          /\ log = {}
    /\ pc \in {"RENDER_UPLOAD", "PERSIST", "DONE"} =>
          /\ Len(uuid_memes) = Len(uuids)
          /\ \A i, j \in 1..Len(uuid_memes) :
                i # j => uuid_memes[i].uuid # uuid_memes[j].uuid
          /\ \A i, j \in 1..Len(image_tasks) :
                i # j => CdnUrl(uuid_memes[image_tasks[i]].uuid)
                           # CdnUrl(uuid_memes[image_tasks[j]].uuid)
\* a refused request that repeats an identifier and names stored rows only
C36_Witness ==
    /\ pc = "FAILED"
    /\ ~Injective(uuids)
    /\ \A i \in 1..Len(uuids) : store[uuids[i]] # NoRow

\* C37: a call is suspended at most once, for the time computed from the
\* snapshot as it is when the gate is consulted; the next step of a sleeping
\* call sends it to the provider with nothing else changed, and is taken
\* whatever the snapshot has become; a call that consults the gate before
\* any response was recorded is admitted at once.
C37_WaitsAtMostOnce ==
    [][\A c \in Callers :
          /\ Gated(c) =>
                /\ callers'[c].gate_time = now
                /\ callers'[c].wait = ShouldWaitGlobal(rate_info, now)[2]
          /\ (callers[c].pc = "sleeping" /\ callers'[c] # callers[c]) =>
                callers'[c] = [callers[c] EXCEPT !.pc = "calling"]
          /\ (callers[c].pc = "calling" /\ callers'[c] # callers[c]) =>
                callers'[c].pc \notin {"idle", "sleeping", "calling"}
          /\ (rate_info = NoInfo /\ callers[c].pc = "idle"
                 /\ callers'[c] # callers[c]) => Proceeds(c)]_vars
\* a call that slept is on its way to the provider although a response
\* recorded during its sleep left a snapshot that is exhausted until later;
\* the call is in flight with a recorded remaining quota of 0
C37_Witness ==
    \E c \in Callers :
        /\ callers[c].pc = "calling"
        /\ callers[c].wait > 0
        /\ rate_info # NoInfo
        /\ rate_info.timestamp > callers[c].gate_time
        /\ \E d \in Dimensions :
              /\ rate_info.remaining[d] = 0
              /\ rate_info.reset[d] > now

\* C38: in a recorded snapshot a dimension whose count header was absent
\* has remaining 0, and its reset is capture time + 60 when the reset header
\* was absent too; a call that consults the gate on such a snapshot is
\* suspended for a time that ends no earlier than the reset of that
\* dimension, and is not sent before that time has elapsed.
C38_MissingCountExhausted ==
    [][\A d \in Dimensions :
          (rate_info # NoInfo /\ headers[d].remaining.kind = "absent") =>
             /\ rate_info.remaining[d] = 0
             /\ headers[d].reset.kind = "absent" =>
                   rate_info.reset[d] = rate_info.timestamp + DefaultResetSeconds
             /\ \A c \in Callers :
                   (callers[c].pc = "idle" /\ callers'[c] # callers[c]) =>
                      /\ Sleeps(c)
                      /\ callers'[c].gate_time + callers'[c].wait >= rate_info.reset[d]
                      /\ callers'[c].gate_time + callers'[c].wait >= now
             /\ \A c \in Callers :
                   (callers[c].pc = "sleeping" /\ callers'[c].pc = "calling") =>
                      now >= callers[c].gate_time + callers[c].wait]_vars
\* the count of one dimension was absent and its reset present, the other
\* dimensions have quota left: the call sleeps until that reset
C38_Witness ==
    \E c \in Callers, d \in Dimensions :
        /\ callers[c].pc = "sleeping"
        /\ rate_info # NoInfo
        /\ headers[d].remaining.kind = "absent"
        /\ headers[d].reset.kind = "value"
        /\ callers[c].wait > 0
        /\ callers[c].gate_time + callers[c].wait = rate_info.reset[d]

(* ----------------------- the lists of the compositor -------------------- *)
\* C39: the list of captions and the list of geometries built for the
\* compositor have the same length; the rendering never ends in the
\* compositor's length-mismatch error nor in its no-text error; a caption
\* that is null reaches the compositor as the empty string, and a rendering
\* that ends in a missing-geometry error has a caption that is not empty on
\* a box without geometry: an empty caption is never the cause.
C39_ListsPaired ==
    (norm.pc = "DONE" /\ ~norm.for_render.raised) =>
       /\ Len(norm.texts) = Len(norm.coordinates)
       /\ Len(norm.texts) = Len(norm.pairs)
       /\ norm.error \notin {"mismatch", "no_texts"}
       /\ (norm.outcome = "rendered") <=> (norm.error = "none")
       /\ \A k \in 1..Len(norm.pairs) :
             norm.text_boxes[norm.pairs[k].index + 1] \in {NoText, ""}
                => norm.texts[k] = ""
       /\ norm.error = "missing_keys" =>
             \E k \in 1..Len(norm.texts) :
                /\ norm.texts[k] # ""
                /\ norm.text_boxes[norm.pairs[k].index + 1] = norm.texts[k]
                /\ norm.coordinates[k] = "empty"
\* two boxes, the second without geometry and with a null caption: it is
\* skipped and the meme is rendered
C39_Witness ==
    /\ norm.pc = "DONE"
    /\ norm.outcome = "rendered"
    /\ Len(norm.texts) = 2
    /\ norm.texts[1] # ""
    /\ norm.texts[2] = ""
    /\ norm.coordinates[2] = "empty"
    /\ norm.text_boxes[norm.pairs[2].index + 1] = NoText

(* ------------------------------ termination ----------------------------- *)
\* C40: when every step that can be taken is eventually taken, every batch
\* request ends: it reaches DONE or FAILED.
C40_Termination == <>(pc \in {"DONE", "FAILED"})
\* a request that went through every stage and ended
C40_Witness ==
    /\ pc = "DONE"
    /\ log = {"goals", "templates", "text", "render", "upload", "write"}
    /\ Len(uuids) >= 2

====
